---- MODULE Spec2Model ----
(***************************************************************************)
(* Model of the larks-mcp document gateway (src/tools.py, src/auth.py,     *)
(* src/utils.py): one `docs` invocation (lark_docs) against a server whose *)
(* answers are chosen nondeterministically, together with the credential   *)
(* store of auth.py.                                                       *)
(*                                                                         *)
(* Python values: None is the string None below, a dict is a sequence of   *)
(* <<key, value>> pairs in insertion order, a list is a sequence.          *)
(***************************************************************************)
EXTENDS Integers, Sequences, FiniteSets, TLC

VARIABLES
    \* auth.py module globals (the credential store)
    user_access_token, user_refresh_token, user_access_token_expires_at,
    stored_oauth_config,
    \* os.environ and int(time.time())
    env, now,
    \* secrets.token_urlsafe / uuid.uuid4: number of fresh values drawn so far
    state_counter, uuid_counter,
    \* the running lark_docs invocation
    pc, args, bearer_token, page_token, has_more, all_blocks,
    image_tokens, sheet_tokens, board_tokens,
    image_urls, image_filename_map, sheet_contents,
    board_contents, board_filename_map, board_token_to_index,
    idx, sheet_meta, parsed_content, content_parts, result,
    \* every outbound request of the invocation, in issue order
    requests,
    \* the answers to the block-page requests of the running fetch, in order;
    \* forgotten when the invocation issues its next request or renders
    pages,
    \* a direct call of one of the pure helpers of tools.py: its name, its
    \* argument and what it returned
    call,
    \* the request to /oauth/callback: where it stands, the state it came
    \* with, the client settings it read, how it ended, and the position of
    \* the lark_docs invocation when it ended
    callback

authVars == <<user_access_token, user_refresh_token, user_access_token_expires_at,
              stored_oauth_config>>
mediaVars == <<image_tokens, sheet_tokens, board_tokens, image_urls,
               image_filename_map, sheet_contents, board_contents,
               board_filename_map, board_token_to_index, idx, sheet_meta,
               parsed_content>>
progVars == <<user_access_token, user_refresh_token, user_access_token_expires_at,
              stored_oauth_config, env, now, state_counter, uuid_counter,
              pc, args, bearer_token, page_token, has_more, all_blocks,
              image_tokens, sheet_tokens, board_tokens,
              image_urls, image_filename_map, sheet_contents,
              board_contents, board_filename_map, board_token_to_index,
              idx, sheet_meta, parsed_content, content_parts, result, requests, pages>>
vars == <<user_access_token, user_refresh_token, user_access_token_expires_at,
          stored_oauth_config, env, now, state_counter, uuid_counter,
          pc, args, bearer_token, page_token, has_more, all_blocks,
          image_tokens, sheet_tokens, board_tokens,
          image_urls, image_filename_map, sheet_contents,
          board_contents, board_filename_map, board_token_to_index,
          idx, sheet_meta, parsed_content, content_parts, result, requests, pages,
          call, callback>>

----------------------------------------------------------------------------
(* Bounds of the model *)

\* pages the server serves for one document
MaxPages == 2
\* blocks on one page
MaxPageLen == 1
\* distinct block ids the server uses
MaxBlockIds == 2
\* clock ticks
MaxTime == 1
\* rows of a grid of sheet values, cells of a row, declared columns
MaxGridRows == 2
MaxRowLen == 2
MaxColumnCount == 2
\* column numbers
MaxColumn == 703
\* nested calls of find_parent_life_line before the interpreter raises
\* RecursionError (1000 frames in CPython)
RecursionLimit == 4

(* Program constants *)

\* auth.py: the token counts as expired 60 seconds before its expiry
ExpiryBuffer == 60

----------------------------------------------------------------------------
(* Python values *)

None == "<None>"

\* truth value of a string-or-None
Truthy(v) == v # None /\ v # ""

\* dict operations on a sequence of <<key, value>> pairs
DictHas(d, k) == \E i \in 1..Len(d) : d[i][1] = k

DictGet(d, k, default) ==
    IF DictHas(d, k)
    THEN d[CHOOSE i \in 1..Len(d) : d[i][1] = k][2]
    ELSE default

DictSet(d, k, v) ==
    IF DictHas(d, k)
    THEN [i \in 1..Len(d) |-> IF d[i][1] = k THEN <<k, v>> ELSE d[i]]
    ELSE Append(d, <<k, v>>)

\* str.join
RECURSIVE Join(_, _)
Join(sep, parts) ==
    IF parts = <<>> THEN ""
    ELSE IF Len(parts) = 1 THEN parts[1]
    ELSE parts[1] \o sep \o Join(sep, Tail(parts))

----------------------------------------------------------------------------
(* auth.py: OAuth configuration and the credential store *)

\* user_access_token_expires_at = None
NoExpiry == -1

\* a dict of OAuth settings; "" stands for a key that is not set
NoConfig == [clientId |-> "", clientSecret |-> "", redirectUri |-> ""]

ConfigTruthy(c) == c.clientId # "" \/ c.clientSecret # "" \/ c.redirectUri # ""

default_redirect_uri == "http://localhost:48080/oauth/callback"

\* get_oauth_config: override, then the stored config, then the environment
get_oauth_config(override_config, stored) ==
    IF ConfigTruthy(override_config)
    THEN [client_id |-> override_config.clientId,
          client_secret |-> override_config.clientSecret,
          redirect_uri |-> IF override_config.redirectUri # ""
                           THEN override_config.redirectUri ELSE default_redirect_uri,
          domain |-> "https://accounts.larksuite.com"]
    ELSE IF ConfigTruthy(stored)
    THEN [client_id |-> stored.clientId,
          client_secret |-> stored.clientSecret,
          redirect_uri |-> IF stored.redirectUri # ""
                           THEN stored.redirectUri ELSE default_redirect_uri,
          domain |-> "https://accounts.larksuite.com"]
    ELSE [client_id |-> env.LARKS_CLIENT_ID,
          client_secret |-> env.LARKS_CLIENT_SECRET,
          redirect_uri |-> IF env.LARKS_REDIRECT_URI # ""
                           THEN env.LARKS_REDIRECT_URI ELSE default_redirect_uri,
          domain |-> "https://accounts.larksuite.com"]

\* secrets.token_urlsafe(32): the n-th fresh state value
FreshState(n) == "state-" \o ToString(n)

\* generate_auth_url, called with client id and secret present
generate_auth_url(oauth_config, n) ==
    [url |-> oauth_config.domain \o "/open-apis/authen/v1/index?app_id="
             \o oauth_config.client_id \o "&redirect_uri=" \o oauth_config.redirect_uri
             \o "&state=" \o FreshState(n),
     state |-> FreshState(n)]

\* is_token_expired, on the store as it is now
is_token_expired ==
    IF ~Truthy(user_access_token) THEN TRUE
    ELSE IF user_access_token_expires_at = NoExpiry THEN FALSE
    ELSE now >= user_access_token_expires_at - ExpiryBuffer

\* get_user_access_token
get_user_access_token == IF is_token_expired THEN None ELSE user_access_token

----------------------------------------------------------------------------
(* tools.py: login *)

\* lark_login_interactive: the result dict, the stored config after the call
\* and the number of state values drawn after the call
lark_login_interactive(LARKS_CLIENT_ID, LARKS_CLIENT_SECRET, LARKS_REDIRECT_URI) ==
    LET oauth_config ==
            [clientId |-> IF Truthy(LARKS_CLIENT_ID) THEN LARKS_CLIENT_ID ELSE "",
             clientSecret |-> IF Truthy(LARKS_CLIENT_SECRET) THEN LARKS_CLIENT_SECRET ELSE "",
             redirectUri |-> IF Truthy(LARKS_REDIRECT_URI) THEN LARKS_REDIRECT_URI ELSE ""]
        complete == /\ oauth_config.clientId # ""
                    /\ oauth_config.clientSecret # ""
                    /\ oauth_config.redirectUri # ""
        stored == IF complete THEN oauth_config ELSE stored_oauth_config
        config == get_oauth_config(oauth_config, stored)
        auth_result == generate_auth_url(config, state_counter + 1)
    IN  IF config.client_id = ""
        THEN [login |-> [success |-> FALSE,
                         error |-> "LARKS_CLIENT_ID not provided.",
                         authorization_url |-> None, state |-> None,
                         message |-> None, next_step |-> None],
              stored |-> stored, states |-> state_counter]
        ELSE IF config.client_secret = ""
        THEN [login |-> [success |-> FALSE,
                         error |-> "LARKS_CLIENT_SECRET not provided.",
                         authorization_url |-> None, state |-> None,
                         message |-> None, next_step |-> None],
              stored |-> stored, states |-> state_counter]
        ELSE [login |-> [success |-> TRUE,
                         error |-> None,
                         authorization_url |-> auth_result.url,
                         state |-> auth_result.state,
                         message |-> "Interactive Login Started: " \o auth_result.url,
                         next_step |-> "After opening the URL and authorizing, the OAuth callback will complete the login automatically."],
              stored |-> stored, states |-> state_counter + 1]

\* the login call of ensure_authenticated and handle_token_expiration:
\* oauth_config.get(...) if oauth_config else None
LoginWith(oauth_config) ==
    lark_login_interactive(oauth_config.LARKS_CLIENT_ID,
                           oauth_config.LARKS_CLIENT_SECRET,
                           oauth_config.LARKS_REDIRECT_URI)

\* ensure_authenticated: TRUE when no login is needed
Authenticated(LARKS_BEARER_TOKEN) ==
    \/ Truthy(LARKS_BEARER_TOKEN)
    \/ Truthy(get_user_access_token)
    \/ Truthy(env.LARKS_BEARER_TOKEN)

----------------------------------------------------------------------------
(* Inputs: the caller's arguments, the environment, the server's documents *)

\* the oauth_config argument of lark_docs as server.docs builds it; the record
\* of three None stands for oauth_config = None
NoOAuthArgs ==
    [LARKS_CLIENT_ID |-> None, LARKS_CLIENT_SECRET |-> None, LARKS_REDIRECT_URI |-> None]

OAuthArgs ==
    { NoOAuthArgs,
      [LARKS_CLIENT_ID |-> "cli_a", LARKS_CLIENT_SECRET |-> "secret_a",
       LARKS_REDIRECT_URI |-> "http://localhost:48080/oauth/callback"] }

\* a URL is the sequence of its path segments after strip('/') and split('/')
Urls == { <<"wiki", "DOC1">>, <<>> }

BearerArgs == { None, "t-param" }

Environments ==
    [LARKS_BEARER_TOKEN : {"", "t-env"},
     LARKS_CLIENT_ID : {"", "cli_env"},
     LARKS_CLIENT_SECRET : {"secret_env"},
     LARKS_REDIRECT_URI : {""}]

\* the credentials a previous login may have left in the store
StoredCredentials ==
    { [access |-> None, refresh |-> None, expires_at |-> NoExpiry],
      [access |-> "t-user", refresh |-> "r-user", expires_at |-> ExpiryBuffer + MaxTime] }

BlockIds == {""} \cup { "b" \o ToString(i) : i \in 1..MaxBlockIds }

\* block_type and payload of a block: text of a text block, token of a media block
Payloads ==
    { [block_type |-> 2, token |-> "", text |-> "Report"],
      [block_type |-> 4, token |-> "", text |-> ""],
      [block_type |-> 999, token |-> "", text |-> ""],
      [block_type |-> 27, token |-> "", text |-> ""],
      [block_type |-> 27, token |-> "imgA", text |-> ""],
      [block_type |-> 27, token |-> "imgB", text |-> ""],
      [block_type |-> 30, token |-> "", text |-> ""],
      [block_type |-> 30, token |-> "sht_1", text |-> ""],
      [block_type |-> 30, token |-> "shtX", text |-> ""],
      [block_type |-> 43, token |-> "", text |-> ""],
      [block_type |-> 43, token |-> "brdA", text |-> ""],
      [block_type |-> 43, token |-> "brdB", text |-> ""] }

\* a block without an id is skipped whatever it carries: one such block
Blocks ==
    { [block_id |-> b, block_type |-> p.block_type, token |-> p.token, text |-> p.text] :
        b \in BlockIds \ {""}, p \in Payloads }
    \cup { [block_id |-> "", block_type |-> 2, token |-> "", text |-> "Report"] }

\* the items of one page
PageItems ==
    UNION { [1..n -> Blocks] : n \in 0..MaxPageLen }

PageTokens == { None, "", "pt1", "pt2" }

----------------------------------------------------------------------------
(* utils.py *)

\* extract_document_id: the last path segment, '' when the path is empty
extract_document_id(url) == IF url = <<>> THEN "" ELSE url[Len(url)]

\* C19 mutant: the environment is asked before the credential store
get_bearer_tokenEnvFirst(provided_token) ==
    IF Truthy(provided_token) THEN provided_token
    ELSE IF Truthy(env.LARKS_BEARER_TOKEN) THEN env.LARKS_BEARER_TOKEN
    ELSE IF Truthy(get_user_access_token) THEN get_user_access_token
    ELSE None

\* get_bearer_token: the token, or None where the code raises ValueError
get_bearer_token(provided_token) ==
    IF Truthy(provided_token) THEN provided_token
    ELSE IF Truthy(get_user_access_token) THEN get_user_access_token
    ELSE IF Truthy(env.LARKS_BEARER_TOKEN) THEN env.LARKS_BEARER_TOKEN
    ELSE None

NoAccessTokenError == "No access token available. Please either: ..."

----------------------------------------------------------------------------
(* tools.py: results of lark_docs *)

NoArgs == [url |-> <<>>, LARKS_BEARER_TOKEN |-> None, oauth_config |-> NoOAuthArgs]

NoResult ==
    [success |-> FALSE, needsLogin |-> FALSE, error |-> None,
     authorization_url |-> None, state |-> None, content |-> None]

\* C9 mutant: the error text is the one of the login result
NeedsLoginResultLoginError(error, login_result) ==
    [success |-> FALSE, needsLogin |-> TRUE, error |-> login_result.error,
     authorization_url |-> login_result.authorization_url,
     state |-> login_result.state, content |-> None]

\* the failure dict of a login that is needed
NeedsLoginResult(error, login_result) ==
    [success |-> FALSE, needsLogin |-> TRUE, error |-> error,
     authorization_url |-> login_result.authorization_url,
     state |-> login_result.state, content |-> None]

FailureResult(error) ==
    [success |-> FALSE, needsLogin |-> FALSE, error |-> error,
     authorization_url |-> None, state |-> None, content |-> None]

SuccessResult(content) ==
    [success |-> TRUE, needsLogin |-> FALSE, error |-> None,
     authorization_url |-> None, state |-> None, content |-> content]

\* no metadata fetched
NoMetadata == [column_count |-> 0, row_count |-> 0, title |-> ""]

\* the frame of the invocation is left: its locals are gone
DropLocals ==
    /\ bearer_token' = None
    /\ page_token' = None
    /\ has_more' = FALSE
    /\ idx' = 0
    /\ sheet_meta' = NoMetadata
    /\ parsed_content' = None

\* C7 mutant: the handler logs in again without clear_tokens
HandleExceptionKeepTokens(message) ==
    LET login == LoginWith(args.oauth_config)
    IN  /\ UNCHANGED <<user_access_token, user_refresh_token, user_access_token_expires_at>>
        /\ stored_oauth_config' = login.stored
        /\ state_counter' = login.states
        /\ result' = NeedsLoginResult("Request failed: " \o message \o ". Please login again.",
                                      login.login)
        /\ pc' = "done"
        /\ all_blocks' = <<>>
        /\ DropLocals

\* except Exception in lark_docs: handle_token_expiration (clear_tokens, then
\* lark_login_interactive) and the failure result
HandleException(message) ==
    LET login == LoginWith(args.oauth_config)
    IN  /\ user_access_token' = None
        /\ user_refresh_token' = None
        /\ user_access_token_expires_at' = NoExpiry
        /\ stored_oauth_config' = login.stored
        /\ state_counter' = login.states
        /\ result' = NeedsLoginResult("Request failed: " \o message \o ". Please login again.",
                                      login.login)
        /\ pc' = "done"
        /\ all_blocks' = <<>>
        /\ DropLocals

----------------------------------------------------------------------------
(* The state after construction *)

\* no helper has been called directly
NoCall == [fn |-> "none", arg |-> <<>>, out |-> <<>>]

\* no request to /oauth/callback has been made
NoCallback ==
    [pc |-> "idle", state |-> None, client |-> None, outcome |-> None, during |-> None]

Init ==
    /\ \E c \in StoredCredentials :
          /\ user_access_token = c.access
          /\ user_refresh_token = c.refresh
          /\ user_access_token_expires_at = c.expires_at
    /\ stored_oauth_config = NoConfig
    /\ env \in Environments
    /\ now = 0
    /\ state_counter = 0
    /\ uuid_counter = 0
    /\ pc = "idle"
    /\ args = NoArgs
    /\ bearer_token = None
    /\ page_token = None
    /\ has_more = FALSE
    /\ all_blocks = <<>>
    /\ image_tokens = <<>>
    /\ sheet_tokens = <<>>
    /\ board_tokens = <<>>
    /\ image_urls = <<>>
    /\ image_filename_map = <<>>
    /\ sheet_contents = <<>>
    /\ board_contents = <<>>
    /\ board_filename_map = <<>>
    /\ board_token_to_index = <<>>
    /\ idx = 0
    /\ sheet_meta = NoMetadata
    /\ parsed_content = None
    /\ content_parts = <<>>
    /\ result = NoResult
    /\ requests = <<>>
    /\ pages = <<>>
    /\ call = NoCall
    /\ callback = NoCallback

\* time.time() advances; the clock is read only by is_token_expired, for a
\* stored token with an expiry, and by lark_docs only before its bearer token
\* is chosen
Tick ==
    /\ pc \in {"idle", "authenticated"}
    /\ Truthy(user_access_token) /\ user_access_token_expires_at # NoExpiry
    /\ now < MaxTime
    /\ now' = now + 1
    /\ UNCHANGED <<authVars, env, state_counter, uuid_counter, pc, args, bearer_token,
                   page_token, has_more, all_blocks, mediaVars, content_parts, result,
                   requests, pages>>
    /\ UNCHANGED <<call, callback>>

----------------------------------------------------------------------------
(* lark_docs *)

\* lark_docs is called: ensure_authenticated and its early return
lark_docs ==
    /\ pc = "idle"
    /\ \E url \in Urls, token \in BearerArgs, oauth_config \in OAuthArgs :
          /\ args' = [url |-> url, LARKS_BEARER_TOKEN |-> token, oauth_config |-> oauth_config]
          /\ IF Authenticated(token)
             THEN /\ pc' = "authenticated"
                  /\ UNCHANGED <<stored_oauth_config, state_counter, result>>
             ELSE LET login == LoginWith(oauth_config)
                  IN  /\ stored_oauth_config' = login.stored
                      /\ state_counter' = login.states
                      /\ result' = NeedsLoginResult(
                                      "Authentication required. Please login first.",
                                      login.login)
                      /\ pc' = "done"
    /\ UNCHANGED <<user_access_token, user_refresh_token, user_access_token_expires_at,
                   env, now, uuid_counter, bearer_token, page_token, has_more, all_blocks,
                   mediaVars, content_parts, requests, pages>>
    /\ UNCHANGED <<call, callback>>

\* extract_document_id, get_bearer_token and the ValueError handler
lark_docs_token ==
    /\ pc = "authenticated"
    /\ IF extract_document_id(args.url) = ""
       THEN /\ result' = FailureResult("Could not extract document ID from URL")
            /\ pc' = "done"
            /\ UNCHANGED <<stored_oauth_config, state_counter, bearer_token>>
       ELSE IF get_bearer_token(args.LARKS_BEARER_TOKEN) = None
       THEN \* except ValueError, 'No access token' in str(error)
            IF Authenticated(args.LARKS_BEARER_TOKEN)
            THEN /\ result' = FailureResult(NoAccessTokenError)
                 /\ pc' = "done"
                 /\ UNCHANGED <<stored_oauth_config, state_counter, bearer_token>>
            ELSE LET login == LoginWith(args.oauth_config)
                 IN  /\ stored_oauth_config' = login.stored
                     /\ state_counter' = login.states
                     /\ result' = NeedsLoginResult(NoAccessTokenError, login.login)
                     /\ pc' = "done"
                     /\ UNCHANGED bearer_token
       ELSE /\ bearer_token' = get_bearer_token(args.LARKS_BEARER_TOKEN)
            /\ pc' = "blocks"
            /\ UNCHANGED <<stored_oauth_config, state_counter, result>>
    /\ UNCHANGED <<user_access_token, user_refresh_token, user_access_token_expires_at,
                   env, now, uuid_counter, args, page_token, has_more, all_blocks,
                   mediaVars, content_parts, requests, pages>>
    /\ UNCHANGED <<call, callback>>

----------------------------------------------------------------------------
(* _fetch_blocks_page and _fetch_blocks_recursive *)

\* the errors _fetch_blocks_page raises: non-success status, nonzero code,
\* and the transport error of client.get
BlockPageErrors ==
    { "Failed to fetch blocks: 500 Internal Server Error",
      "API error: Unknown error",
      "ConnectError" }

\* client.get(...): the request is recorded with the kind of answer it got
\* ("ok", "not_found" for HTTP 404 where the code tells it apart, "error")
Request(ep, arg, answer) ==
    requests' = Append(requests, [ep |-> ep, arg |-> arg, answer |-> answer])

BlockRequests == SelectSeq(requests, LAMBDA r : r.ep = "blocks")

\* C20 mutant: every page request is sent without a page token
PageTokenParamNever(token) == None

\* params of _fetch_blocks_page: page_token is sent only when it is truthy
PageTokenParam(token) == IF Truthy(token) THEN token ELSE None

HasBlockId(blocks, id) == \E i \in 1..Len(blocks) : blocks[i].block_id = id

\* C4 mutant: every block with an id is added, seen before or not
RECURSIVE AddItemsUnchecked(_, _)
AddItemsUnchecked(blocks, items) ==
    IF items = <<>> THEN blocks
    ELSE IF items[1].block_id # ""
    THEN AddItemsUnchecked(Append(blocks, items[1]), Tail(items))
    ELSE AddItemsUnchecked(blocks, Tail(items))

\* C5 mutant: all_blocks[block_id] = block without the membership test
RECURSIVE AddItemsOverwrite(_, _)
AddItemsOverwrite(blocks, items) ==
    IF items = <<>> THEN blocks
    ELSE LET block == items[1]
         IN  IF block.block_id = ""
             THEN AddItemsOverwrite(blocks, Tail(items))
             ELSE IF HasBlockId(blocks, block.block_id)
             THEN AddItemsOverwrite(
                      [i \in 1..Len(blocks) |->
                          IF blocks[i].block_id = block.block_id THEN block ELSE blocks[i]],
                      Tail(items))
             ELSE AddItemsOverwrite(Append(blocks, block), Tail(items))

\* for block in items: add the block unless its id is empty or already a key
RECURSIVE AddItems(_, _)
AddItems(blocks, items) ==
    IF items = <<>> THEN blocks
    ELSE LET block == items[1]
         IN  IF block.block_id # "" /\ ~HasBlockId(blocks, block.block_id)
             THEN AddItems(Append(blocks, block), Tail(items))
             ELSE AddItems(blocks, Tail(items))

\* Block ids are opaque and only compared for equality, so the server hands out
\* new ids in the order b1, b2, ...: an item carries no id, an id seen before
\* (on this page or an earlier one), or the next unused id.
RECURSIVE CanonicalIds(_, _)
CanonicalIds(seen, items) ==
    IF items = <<>> THEN TRUE
    ELSE LET id == items[1].block_id
         IN  IF id = "" \/ id \in seen
             THEN CanonicalIds(seen, Tail(items))
             ELSE /\ id = "b" \o ToString(Cardinality(seen) + 1)
                  /\ CanonicalIds(seen \cup {id}, Tail(items))

SeenIds(blocks) == { blocks[i].block_id : i \in 1..Len(blocks) }

\* C6 mutant: the loop ends on has_more alone
LastPageHasMoreOnly(more, token) == ~more

\* the loop ends: if not has_more or not page_token: break
LastPage(more, token) == ~more \/ ~Truthy(token)

----------------------------------------------------------------------------
(* lark_docs: token extraction *)

RECURSIVE TokensOfType(_, _)
TokensOfType(blocks, type) ==
    IF blocks = <<>> THEN <<>>
    ELSE (IF blocks[1].block_type = type /\ Truthy(blocks[1].token)
          THEN <<blocks[1].token>> ELSE <<>>) \o TokensOfType(Tail(blocks), type)

\* for idx, board_token in enumerate(board_tokens, start=1):
\*     board_token_to_index[board_token] = idx
RECURSIVE BoardIndex(_, _, _)
BoardIndex(index, tokens, i) ==
    IF i > Len(tokens) THEN index
    ELSE BoardIndex(DictSet(index, tokens[i], i), tokens, i + 1)

----------------------------------------------------------------------------
(* _fetch_sheet_content: the part before its first request *)

\* '_' in sheet_token, for the tokens of the model
HasUnderscore(token) == token \in {"sht_1"}

\* sheet tokens without '_' get their placeholder without any request
RECURSIVE SheetAdvance(_, _, _)
SheetAdvance(contents, tokens, i) ==
    IF i > Len(tokens) \/ HasUnderscore(tokens[i])
    THEN [contents |-> contents, idx |-> i]
    ELSE SheetAdvance(DictSet(contents, tokens[i], "[SHEET_TOKEN:" \o tokens[i] \o "]"),
                      tokens, i + 1)

----------------------------------------------------------------------------
(* lark_docs: which request comes next *)

\* C21 mutant: the sheets are resolved before the image URLs are requested
PlanSheetsFirst(stage, imgToks, urls, shtToks, brdToks, contents, i) ==
    LET adv == SheetAdvance(contents, shtToks, i)
        boards == IF brdToks # <<>>
                  THEN [pc |-> "board_nodes", idx |-> 1, contents |-> contents,
                        index |-> BoardIndex(<<>>, brdToks, 1)]
                  ELSE [pc |-> "render", idx |-> 0, contents |-> contents, index |-> <<>>]
    IN  IF stage = 2
        THEN IF urls # <<>>
             THEN [pc |-> "download", idx |-> 1, contents |-> contents, index |-> <<>>]
             ELSE boards
        ELSE IF stage = 3 /\ i = 1 THEN boards
        ELSE IF adv.idx <= Len(shtToks)
        THEN [pc |-> "sheet_meta", idx |-> adv.idx, contents |-> adv.contents, index |-> <<>>]
        ELSE IF imgToks # <<>>
        THEN [pc |-> "image_urls", idx |-> 1, contents |-> adv.contents, index |-> <<>>]
        ELSE boards

\* The next suspension point of lark_docs from the given stage on
\* (1 image URLs, 2 downloads, 3 sheets from index i on, 4 boards), with the
\* maps the code fills on the way.
Plan(stage, imgToks, urls, shtToks, brdToks, contents, i) ==
    LET adv == IF stage <= 3 THEN SheetAdvance(contents, shtToks, IF stage = 3 THEN i ELSE 1)
               ELSE [contents |-> contents, idx |-> Len(shtToks) + 1]
    IN  IF stage <= 1 /\ imgToks # <<>>
        THEN [pc |-> "image_urls", idx |-> 1, contents |-> contents, index |-> <<>>]
        ELSE IF stage <= 2 /\ urls # <<>>
        THEN [pc |-> "download", idx |-> 1, contents |-> contents, index |-> <<>>]
        ELSE IF stage <= 3 /\ adv.idx <= Len(shtToks)
        THEN [pc |-> "sheet_meta", idx |-> adv.idx, contents |-> adv.contents, index |-> <<>>]
        ELSE IF brdToks # <<>>
        THEN [pc |-> "board_nodes", idx |-> 1, contents |-> adv.contents,
              index |-> BoardIndex(<<>>, brdToks, 1)]
        ELSE [pc |-> "render", idx |-> 0, contents |-> adv.contents, index |-> <<>>]

\* one page request of _fetch_blocks_recursive and what follows its response
FetchBlocksPage ==
    /\ pc = "blocks"
    /\ \/ \E error \in BlockPageErrors :
             /\ Request("blocks", PageTokenParam(page_token), "error")
             /\ HandleException(error)
             /\ pages' = Append(pages, [items |-> <<>>, has_more |-> FALSE,
                                        page_token |-> None, error |-> error])
             /\ UNCHANGED <<image_tokens, sheet_tokens, board_tokens,
                            sheet_contents, board_token_to_index>>
       \/ \E items \in PageItems, more \in BOOLEAN, token \in PageTokens :
             /\ LastPage(more, token) \/ Len(BlockRequests) + 1 < MaxPages
             /\ Request("blocks", PageTokenParam(page_token), "ok")
             /\ CanonicalIds(SeenIds(all_blocks), items)
             /\ pages' = Append(pages, [items |-> items, has_more |-> more,
                                        page_token |-> token, error |-> None])
             /\ all_blocks' = AddItems(all_blocks, items)
             /\ IF LastPage(more, token)
                THEN LET blocks == AddItems(all_blocks, items)
                         imgToks == TokensOfType(blocks, 27)
                         shtToks == TokensOfType(blocks, 30)
                         brdToks == TokensOfType(blocks, 43)
                         plan == Plan(1, imgToks, <<>>, shtToks, brdToks, <<>>, 1)
                     IN  /\ image_tokens' = imgToks
                         /\ sheet_tokens' = shtToks
                         /\ board_tokens' = brdToks
                         /\ pc' = plan.pc
                         /\ idx' = plan.idx
                         /\ sheet_contents' = plan.contents
                         /\ board_token_to_index' = plan.index
                         /\ page_token' = None
                         /\ has_more' = FALSE
                ELSE /\ page_token' = token
                     /\ has_more' = more
                     /\ UNCHANGED <<pc, idx, image_tokens, sheet_tokens, board_tokens,
                                    sheet_contents, board_token_to_index>>
             /\ UNCHANGED <<authVars, state_counter, result, bearer_token, sheet_meta,
                            parsed_content>>
    /\ UNCHANGED <<env, now, uuid_counter, args, image_urls, image_filename_map,
                   board_contents, board_filename_map, content_parts>>
    /\ UNCHANGED <<call, callback>>

----------------------------------------------------------------------------
(* _fetch_image_urls and _download_and_compress_image *)

\* the failures of one URL request that the loop logs and skips
MediaErrors == { "http_error", "api_error", "exception" }

\* data.tmp_download_urls of a successful answer for one token
ImageUrlAnswers(token) ==
    { <<>>, << [file_token |-> token, tmp_download_url |-> "https://cdn/" \o token] >> }

\* for item in tmp_download_urls: urls[file_token] = tmp_download_url
RECURSIVE AddUrls(_, _)
AddUrls(urls, items) ==
    IF items = <<>> THEN urls
    ELSE IF Truthy(items[1].file_token) /\ Truthy(items[1].tmp_download_url)
    THEN AddUrls(DictSet(urls, items[1].file_token, items[1].tmp_download_url), Tail(items))
    ELSE AddUrls(urls, Tail(items))

\* uuid.uuid4().hex with the extension of the sniffed format
FreshFile(n, ext) == "file-" \o ToString(n) \o ext

\* the loop over valid_tokens goes on to its next token with the URLs found so
\* far; after the last token lark_docs goes on with them
ImageUrlNext(urls) ==
    /\ image_urls' = urls
    /\ IF idx < Len(image_tokens)
       THEN /\ idx' = idx + 1
            /\ UNCHANGED <<pc, sheet_contents, board_token_to_index>>
       ELSE LET plan == Plan(2, image_tokens, urls, sheet_tokens, board_tokens, <<>>, 1)
            IN  /\ pc' = plan.pc
                /\ idx' = plan.idx
                /\ sheet_contents' = plan.contents
                /\ board_token_to_index' = plan.index

\* C10 mutant: a failed request ends the loop (break) instead of continue
ImageUrlFailedBreak(error) ==
    LET plan == Plan(2, image_tokens, image_urls, sheet_tokens, board_tokens, <<>>, 1)
    IN  /\ error \in MediaErrors
        /\ image_urls' = image_urls
        /\ pc' = plan.pc
        /\ idx' = plan.idx
        /\ sheet_contents' = plan.contents
        /\ board_token_to_index' = plan.index

\* not response.is_success, code != 0, except Exception: log and continue
ImageUrlFailed(error) ==
    /\ error \in MediaErrors
    /\ ImageUrlNext(image_urls)

\* one request of the loop over valid_tokens in _fetch_image_urls
FetchImageUrl ==
    /\ pc = "image_urls"
    /\ pages' = <<>>
    /\ \/ \E error \in MediaErrors :
             /\ Request("image_url", image_tokens[idx], "error")
             /\ ImageUrlFailed(error)
       \/ \E answer \in ImageUrlAnswers(image_tokens[idx]) :
             /\ Request("image_url", image_tokens[idx], "ok")
             /\ ImageUrlNext(AddUrls(image_urls, answer))
    /\ UNCHANGED <<authVars, env, now, state_counter, uuid_counter, args, bearer_token,
                   page_token, has_more, all_blocks, image_tokens, sheet_tokens,
                   board_tokens, image_filename_map, board_contents, board_filename_map,
                   sheet_meta, parsed_content, content_parts, result>>
    /\ UNCHANGED <<call, callback>>

\* one download of the loop over image_urls.items() in lark_docs
DownloadImage ==
    /\ pc = "download"
    /\ pages' = <<>>
    /\ \/ \* _download_and_compress_image returns None
          /\ Request("download", image_urls[idx][2], "error")
          /\ UNCHANGED <<image_filename_map, uuid_counter>>
       \/ /\ Request("download", image_urls[idx][2], "ok")
          /\ image_filename_map' = DictSet(image_filename_map, image_urls[idx][1],
                                           FreshFile(uuid_counter + 1, ".jpg"))
          /\ uuid_counter' = uuid_counter + 1
    /\ IF idx < Len(image_urls)
       THEN /\ idx' = idx + 1
            /\ UNCHANGED <<pc, sheet_contents, board_token_to_index>>
       ELSE LET plan == Plan(3, image_tokens, image_urls, sheet_tokens, board_tokens, <<>>, 1)
            IN  /\ pc' = plan.pc
                /\ idx' = plan.idx
                /\ sheet_contents' = plan.contents
                /\ board_token_to_index' = plan.index
    /\ UNCHANGED <<authVars, env, now, state_counter, args, bearer_token,
                   page_token, has_more, all_blocks, image_tokens, sheet_tokens,
                   board_tokens, image_urls, board_contents, board_filename_map,
                   sheet_meta, parsed_content, content_parts, result>>
    /\ UNCHANGED <<call, callback>>

----------------------------------------------------------------------------
(* _column_number_to_letters, _fetch_sheet_metadata, _fetch_sheet_values,
   _fetch_sheet_content *)

Letters == << "A", "B", "C", "D", "E", "F", "G", "H", "I", "J", "K", "L", "M",
              "N", "O", "P", "Q", "R", "S", "T", "U", "V", "W", "X", "Y", "Z" >>

\* C18 mutant: plain base 26, without n -= 1
RECURSIVE ColumnLettersZeroDigit(_, _)
ColumnLettersZeroDigit(n, acc) ==
    IF n > 0
    THEN ColumnLettersZeroDigit(n \div 26, Letters[(n % 26) + 1] \o acc)
    ELSE acc

\* while n > 0: n -= 1; result = chr(65 + n % 26) + result; n //= 26
RECURSIVE ColumnLetters(_, _)
ColumnLetters(n, acc) ==
    IF n > 0
    THEN ColumnLetters((n - 1) \div 26, Letters[((n - 1) % 26) + 1] \o acc)
    ELSE acc

_column_number_to_letters(n) == ColumnLetters(n, "")

\* sheet_token.rsplit('_', 1), for the tokens of the model
SpreadsheetToken(token) == IF token = "sht_1" THEN "sht" ELSE token
SheetId(token) == IF token = "sht_1" THEN "1" ELSE ""

\* the answers of the metadata endpoint: grid_properties and title
SheetMetadata ==
    { [column_count |-> 0, row_count |-> 3, title |-> "Plan"],
      [column_count |-> 2, row_count |-> 1, title |-> "Plan"] }

\* a cell is the sequence of its characters
SheetValues ==
    { <<>>,
      << << <<"a">>, <<"x", "|", "y">>, <<"c">> >>, << <<"d">> >> >> }

\* what _fetch_sheet_metadata raises: non-success status (a nonzero code and a
\* transport error take the same path with another message)
SheetErrors == { "Failed to fetch sheet metadata: 500" }

\* what _fetch_sheet_values raises after its last request
ValuesErrors == { "Failed to fetch sheet values: 500 error" }

\* str(cell).replace('|', '\\|')
RECURSIVE EscapeCell(_)
EscapeCell(cell) ==
    IF cell = <<>> THEN ""
    ELSE (IF cell[1] = "|" THEN "\\|" ELSE cell[1]) \o EscapeCell(Tail(cell))

\* C17 mutant: the row is padded and not truncated
PadRowNoTruncate(row, column_count) ==
    [j \in 1..(IF Len(row) > column_count THEN Len(row) ELSE column_count) |->
        IF j <= Len(row) THEN row[j] ELSE <<>>]

\* row + [''] * (column_count - len(row)), then [:column_count]
PadRow(row, column_count) ==
    [j \in 1..column_count |-> IF j <= Len(row) THEN row[j] ELSE <<>>]

TableRow(row, column_count) ==
    LET padded_row == PadRow(row, column_count)
        escaped_row == [j \in 1..Len(padded_row) |-> EscapeCell(padded_row[j])]
    IN  "| " \o Join(" | ", escaped_row) \o " |"

SeparatorRow(column_count) ==
    "|" \o Join("|", [j \in 1..column_count |-> " --- "]) \o "|"

\* the lines of the table: one per row, the separator after the first row
RECURSIVE TableLines(_, _, _)
TableLines(values, column_count, row_idx) ==
    IF row_idx > Len(values) THEN <<>>
    ELSE <<TableRow(values[row_idx], column_count)>>
         \o (IF row_idx = 1 THEN <<SeparatorRow(column_count)>> ELSE <<>>)
         \o TableLines(values, column_count, row_idx + 1)

\* the fragment _fetch_sheet_content returns for fetched values
SheetTable(metadata, values) ==
    IF values = <<>>
    THEN "[SHEET: " \o metadata.title \o " - No data]"
    ELSE Join("\n", <<"**Sheet: " \o metadata.title \o "**\n">>
                    \o TableLines(values, metadata.column_count, 1))

\* C16 mutant: the except branch returns the bare token placeholder
SheetErrorBare(token, message) == "[SHEET_TOKEN:" \o token \o "]"

SheetError(token, message) == "[SHEET_TOKEN:" \o token \o " - Error: " \o message \o "]"

\* sheet_contents[sheet_token] = sheet_content, then the next sheet token that
\* needs a request, or the boards
SheetDone(content) ==
    LET contents == DictSet(sheet_contents, sheet_tokens[idx], content)
        plan == Plan(3, image_tokens, image_urls, sheet_tokens, board_tokens, contents, idx + 1)
    IN  /\ pc' = plan.pc
        /\ idx' = plan.idx
        /\ sheet_contents' = plan.contents
        /\ board_token_to_index' = plan.index
        /\ sheet_meta' = NoMetadata

\* C14 mutant: a sheet is empty only if both counts are zero
SheetIsEmptyBoth(metadata) == metadata.column_count = 0 /\ metadata.row_count = 0

\* if column_count == 0 or row_count == 0
SheetIsEmpty(metadata) == metadata.column_count = 0 \/ metadata.row_count = 0

\* _fetch_sheet_content up to the answer of _fetch_sheet_metadata
FetchSheetMetadata ==
    /\ pc = "sheet_meta"
    /\ pages' = <<>>
    /\ \/ \E error \in SheetErrors :
             /\ Request("sheet_meta", sheet_tokens[idx], "error")
             /\ SheetDone(SheetError(sheet_tokens[idx], error))
       \/ \E metadata \in SheetMetadata :
             /\ Request("sheet_meta", sheet_tokens[idx], "ok")
             /\ IF SheetIsEmpty(metadata)
                THEN SheetDone("[SHEET: " \o metadata.title \o " - Empty]")
                ELSE /\ sheet_meta' = metadata
                     /\ pc' = "sheet_values"
                     /\ UNCHANGED <<idx, sheet_contents, board_token_to_index>>
    /\ UNCHANGED <<authVars, env, now, state_counter, uuid_counter, args, bearer_token,
                   page_token, has_more, all_blocks, image_tokens, sheet_tokens,
                   board_tokens, image_urls, image_filename_map, board_contents,
                   board_filename_map, parsed_content, content_parts, result>>
    /\ UNCHANGED <<call, callback>>

\* range_str = f'{sheet_id}!A1:{last_column}{row_count}'
RangeStr(token, metadata) ==
    SheetId(token) \o "!A1:" \o _column_number_to_letters(metadata.column_count)
    \o ToString(metadata.row_count)

\* C15 mutant: every failure of the v2 request falls back to v3
FetchSheetValuesAnyFailure ==
    /\ pc = "sheet_values"
    /\ pages' = <<>>
    /\ \/ \E answer \in {"not_found", "error"} :
             /\ Request("sheet_values_v2", RangeStr(sheet_tokens[idx], sheet_meta), answer)
             /\ pc' = "sheet_values_v3"
             /\ UNCHANGED <<idx, sheet_contents, board_token_to_index, sheet_meta>>
       \/ \E values \in SheetValues :
             /\ Request("sheet_values_v2", RangeStr(sheet_tokens[idx], sheet_meta), "ok")
             /\ SheetDone(SheetTable(sheet_meta, values))
    /\ UNCHANGED <<authVars, env, now, state_counter, uuid_counter, args, bearer_token,
                   page_token, has_more, all_blocks, image_tokens, sheet_tokens,
                   board_tokens, image_urls, image_filename_map, board_contents,
                   board_filename_map, parsed_content, content_parts, result>>
    /\ UNCHANGED <<call, callback>>

\* _fetch_sheet_values: the v2 request
FetchSheetValues ==
    /\ pc = "sheet_values"
    /\ pages' = <<>>
    /\ \/ \* not response.is_success and response.status_code == 404
          /\ Request("sheet_values_v2", RangeStr(sheet_tokens[idx], sheet_meta), "not_found")
          /\ pc' = "sheet_values_v3"
          /\ UNCHANGED <<idx, sheet_contents, board_token_to_index, sheet_meta>>
       \/ \E error \in ValuesErrors :
             /\ Request("sheet_values_v2", RangeStr(sheet_tokens[idx], sheet_meta), "error")
             /\ SheetDone(SheetError(sheet_tokens[idx], error))
       \/ \E values \in SheetValues :
             /\ Request("sheet_values_v2", RangeStr(sheet_tokens[idx], sheet_meta), "ok")
             /\ SheetDone(SheetTable(sheet_meta, values))
    /\ UNCHANGED <<authVars, env, now, state_counter, uuid_counter, args, bearer_token,
                   page_token, has_more, all_blocks, image_tokens, sheet_tokens,
                   board_tokens, image_urls, image_filename_map, board_contents,
                   board_filename_map, parsed_content, content_parts, result>>
    /\ UNCHANGED <<call, callback>>

\* _fetch_sheet_values: the v3 request after a 404
FetchSheetValuesV3 ==
    /\ pc = "sheet_values_v3"
    /\ pages' = <<>>
    /\ \/ \E error \in ValuesErrors :
             /\ Request("sheet_values_v3", RangeStr(sheet_tokens[idx], sheet_meta), "error")
             /\ SheetDone(SheetError(sheet_tokens[idx], error))
       \/ \E values \in SheetValues :
             /\ Request("sheet_values_v3", RangeStr(sheet_tokens[idx], sheet_meta), "ok")
             /\ SheetDone(SheetTable(sheet_meta, values))
    /\ UNCHANGED <<authVars, env, now, state_counter, uuid_counter, args, bearer_token,
                   page_token, has_more, all_blocks, image_tokens, sheet_tokens,
                   board_tokens, image_urls, image_filename_map, board_contents,
                   board_filename_map, parsed_content, content_parts, result>>
    /\ UNCHANGED <<call, callback>>

----------------------------------------------------------------------------
(* _fetch_board_nodes, _parse_board_nodes, _download_board_image *)

\* the nodes of a board: a life line, a connector, any other shape
LifeLine(id, text, x, children) ==
    [id |-> id, type |-> "life_line", text |-> text, x |-> x, y |-> 0,
     children |-> children, parent_id |-> "", start |-> "", end_x |-> 0,
     caption |-> "", end_arrow |-> "none"]

Connector(id, y, start, end_x, caption, end_arrow) ==
    [id |-> id, type |-> "connector", text |-> "", x |-> 0, y |-> y,
     children |-> <<>>, parent_id |-> "", start |-> start, end_x |-> end_x,
     caption |-> caption, end_arrow |-> end_arrow]

Shape(id, parent_id) ==
    [id |-> id, type |-> "activation", text |-> "", x |-> 0, y |-> 0,
     children |-> <<>>, parent_id |-> parent_id, start |-> "", end_x |-> 0,
     caption |-> "", end_arrow |-> "none"]

\* data.get('data', {}) of a successful nodes answer: no data at all, an empty
\* node list, a board of one life line
NoNodesData == [present |-> FALSE, nodes |-> <<>>]

BoardNodesData ==
    { NoNodesData,
      [present |-> TRUE, nodes |-> <<>>],
      [present |-> TRUE, nodes |-> << LifeLine("l1", "Alice", 0, <<>>) >>] }

\* node_id.split(':')[0], for the ids of the model
IdPrefix(id) ==
    CASE id = "s5:1" -> "s5"
      [] id = "s5:2" -> "s5"
      [] OTHER -> id

InSeq(x, seq) == \E k \in 1..Len(seq) : seq[k] = x

\* the life lines of the board, in the order of the dict life_lines
LifeLines(nodes) == SelectSeq(nodes, LAMBDA n : n.type = "life_line")

\* the life lines with a label: the keys of life_line_labels and of
\* life_line_positions
LabelledLifeLines(nodes) == SelectSeq(LifeLines(nodes), LAMBDA n : n.text # "")

\* the first life line of the loop of find_parent_life_line that returns:
\* node_id is one of its children, or a child has the prefix of node_id
RECURSIVE FirstOwner(_, _, _)
FirstOwner(life_lines, node_id, k) ==
    IF k > Len(life_lines) THEN None
    ELSE IF \/ InSeq(node_id, life_lines[k].children)
            \/ \E c \in 1..Len(life_lines[k].children) :
                  IdPrefix(life_lines[k].children[c]) = IdPrefix(node_id)
    THEN life_lines[k].id
    ELSE FirstOwner(life_lines, node_id, k + 1)

\* what a call raises when the interpreter's recursion limit is reached
RecursionError == "<RecursionError>"

\* find_parent_life_line(node_id), as the depth-th nested call
RECURSIVE find_parent_life_line(_, _, _)
find_parent_life_line(nodes, node_id, depth) ==
    IF depth > RecursionLimit THEN RecursionError
    ELSE IF node_id = "" THEN None
    ELSE IF \E k \in 1..Len(nodes) : nodes[k].type = "life_line" /\ nodes[k].id = node_id
    THEN node_id
    ELSE IF FirstOwner(LifeLines(nodes), node_id, 1) # None
    THEN FirstOwner(LifeLines(nodes), node_id, 1)
    ELSE IF \E k \in 1..Len(nodes) : nodes[k].id = node_id /\ nodes[k].parent_id # ""
    THEN LET node == nodes[CHOOSE k \in 1..Len(nodes) : nodes[k].id = node_id]
         IN  find_parent_life_line(nodes, node.parent_id, depth + 1)
    ELSE None

\* sorted(connectors, key=y): a stable insertion
RECURSIVE InsertByY(_, _)
InsertByY(sorted, c) ==
    IF sorted = <<>> THEN <<c>>
    ELSE IF sorted[Len(sorted)].y <= c.y THEN Append(sorted, c)
    ELSE Append(InsertByY(SubSeq(sorted, 1, Len(sorted) - 1), c), sorted[Len(sorted)])

RECURSIVE SortByY(_, _)
SortByY(connectors, k) ==
    IF k = 0 THEN <<>> ELSE InsertByY(SortByY(connectors, k - 1), connectors[k])

ConnectorsSorted(nodes) ==
    LET connectors == SelectSeq(nodes, LAMBDA n : n.type = "connector")
    IN  SortByY(connectors, Len(connectors))

Abs(v) == IF v < 0 THEN 0 - v ELSE v

\* the key of life_line_positions nearest to end_x, the first one of equals
RECURSIVE NearestLifeLine(_, _, _, _)
NearestLifeLine(positions, end_x, k, best) ==
    IF k > Len(positions) THEN best
    ELSE IF best = 0 \/ Abs(end_x - positions[k].x) < Abs(end_x - positions[best].x)
    THEN NearestLifeLine(positions, end_x, k + 1, k)
    ELSE NearestLifeLine(positions, end_x, k + 1, best)

\* life_line_labels.get(id, 'Unknown') if id else 'Unknown'
LabelOf(nodes, id) ==
    IF \E k \in 1..Len(nodes) : nodes[k].type = "life_line" /\ nodes[k].id = id
                                  /\ nodes[k].text # ""
    THEN nodes[CHOOSE k \in 1..Len(nodes) : nodes[k].type = "life_line"
                                             /\ nodes[k].id = id].text
    ELSE "Unknown"

\* the arrows U+2192 and U+2190 of the source, in ASCII
ArrowSymbol(end_arrow) == IF end_arrow # "none" THEN "->" ELSE "<-"

\* the line of one connector
SequenceLine(nodes, connector) ==
    LET start_life_line_id == find_parent_life_line(nodes, connector.start, 1)
        start_label == LabelOf(nodes, start_life_line_id)
        positions == LabelledLifeLines(nodes)
        nearest == NearestLifeLine(positions, connector.end_x, 1, 0)
        end_label == IF nearest = 0 THEN "Unknown" ELSE positions[nearest].text
    IN  "- " \o start_label \o " " \o ArrowSymbol(connector.end_arrow) \o " " \o end_label
        \o (IF connector.caption # "" THEN ": " \o connector.caption ELSE "")

\* sorted(life_line_labels.values()), for the labels of the model
LabelRank(label) ==
    CASE label = "Alice" -> 1
      [] label = "Bob" -> 2
      [] OTHER -> 3

RECURSIVE InsertLabel(_, _)
InsertLabel(sorted, label) ==
    IF sorted = <<>> THEN <<label>>
    ELSE IF LabelRank(sorted[Len(sorted)]) <= LabelRank(label) THEN Append(sorted, label)
    ELSE Append(InsertLabel(SubSeq(sorted, 1, Len(sorted) - 1), label), sorted[Len(sorted)])

RECURSIVE LifeLineLabels(_)
LifeLineLabels(nodes) ==
    IF nodes = <<>> THEN <<>>
    ELSE LET rest == LifeLineLabels(SubSeq(nodes, 1, Len(nodes) - 1))
             last == nodes[Len(nodes)]
         IN  IF last.type = "life_line" /\ last.text # ""
             THEN InsertLabel(rest, last.text) ELSE rest

RECURSIVE ParticipantLines(_)
ParticipantLines(labels) ==
    IF labels = <<>> THEN <<>>
    ELSE <<"- " \o labels[1]>> \o ParticipantLines(Tail(labels))

\* C24 mutant: the exception leaves _parse_board_nodes
BoardParseErrorRaised(e) == "<raised " \o e \o ">"

\* except Exception as e: the parse-error placeholder
BoardParseError(e) == "[BOARD: Parse error - " \o e \o "]"

_parse_board_nodes(nodes_data) ==
    LET nodes == nodes_data.nodes
        connectors == ConnectorsSorted(nodes)
        sequence_parts == [k \in 1..Len(connectors) |-> SequenceLine(nodes, connectors[k])]
        life_line_labels == LifeLineLabels(nodes)
        parts == (IF sequence_parts # <<>>
                  THEN <<"**Sequence Flow:**\n">> \o sequence_parts \o <<"">>
                  ELSE <<>>)
                 \o (IF life_line_labels # <<>>
                     THEN <<"**Participants:**\n">> \o ParticipantLines(life_line_labels)
                          \o <<"">>
                     ELSE <<>>)
    IN  IF nodes = <<>> THEN "[BOARD: Empty]"
        ELSE IF \E k \in 1..Len(connectors) :
                   find_parent_life_line(nodes, connectors[k].start, 1) = RecursionError
        THEN BoardParseError("maximum recursion depth exceeded")
        ELSE IF parts # <<>> THEN Join("\n", parts)
        ELSE "[BOARD: Unable to parse]"

\* the first request for board_tokens[idx]: _fetch_board_nodes, then the parse
FetchBoardNodes ==
    /\ pc = "board_nodes"
    /\ pages' = <<>>
    /\ \/ \* _fetch_board_nodes returns None (MediaErrors)
          /\ Request("board_nodes", board_tokens[idx], "error")
          /\ parsed_content' = None
          /\ UNCHANGED board_contents
       \/ \E nodes_data \in BoardNodesData :
             /\ Request("board_nodes", board_tokens[idx], "ok")
             /\ IF nodes_data.present
                THEN /\ parsed_content' = _parse_board_nodes(nodes_data)
                     /\ board_contents' = DictSet(board_contents, board_tokens[idx],
                                                  _parse_board_nodes(nodes_data))
                ELSE /\ parsed_content' = None
                     /\ UNCHANGED board_contents
    /\ pc' = "board_image"
    /\ UNCHANGED <<authVars, env, now, state_counter, uuid_counter, args, bearer_token,
                   page_token, has_more, all_blocks, image_tokens, sheet_tokens,
                   board_tokens, image_urls, image_filename_map, sheet_contents,
                   board_filename_map, board_token_to_index, idx, sheet_meta,
                   content_parts, result>>
    /\ UNCHANGED <<call, callback>>

\* the second request for board_tokens[idx]: _download_board_image
DownloadBoardImage ==
    /\ pc = "board_image"
    /\ pages' = <<>>
    /\ \/ \* _download_board_image returns None
          /\ Request("board_image", board_tokens[idx], "error")
          /\ UNCHANGED <<board_filename_map, uuid_counter>>
       \/ /\ Request("board_image", board_tokens[idx], "ok")
          /\ board_filename_map' = DictSet(board_filename_map, board_tokens[idx],
                                           FreshFile(uuid_counter + 1, ".png"))
          /\ uuid_counter' = uuid_counter + 1
    /\ parsed_content' = None
    /\ IF idx < Len(board_tokens)
       THEN /\ idx' = idx + 1
            /\ pc' = "board_nodes"
       ELSE /\ idx' = 0
            /\ pc' = "render"
    /\ UNCHANGED <<authVars, env, now, state_counter, args, bearer_token,
                   page_token, has_more, all_blocks, image_tokens, sheet_tokens,
                   board_tokens, image_urls, image_filename_map, sheet_contents,
                   board_contents, board_token_to_index, sheet_meta,
                   content_parts, result>>
    /\ UNCHANGED <<call, callback>>

----------------------------------------------------------------------------
(* _extract_text_from_block and the rendering loop of lark_docs *)

\* the code fence (three backquotes, which a TLA+ string cannot hold)
Fence == "~~~"

RECURSIVE Hashes(_)
Hashes(n) == IF n = 0 THEN "" ELSE "#" \o Hashes(n - 1)

_extract_text_from_block(block) ==
    LET block_type == block.block_type
        text == block.text
    IN  IF block_type \in {1, 2} THEN text
        ELSE IF block_type \in 3..11
        THEN IF text # "" THEN Hashes(block_type - 2) \o " " \o text ELSE ""
        ELSE IF block_type = 12 THEN IF text # "" THEN "- " \o text ELSE ""
        ELSE IF block_type = 13 THEN IF text # "" THEN "1. " \o text ELSE ""
        ELSE IF block_type = 14 THEN IF text # "" THEN Fence \o "\n" \o text \o "\n" \o Fence ELSE ""
        ELSE IF block_type = 27
        THEN IF Truthy(block.token) THEN "[IMAGE_TOKEN:" \o block.token \o "]" ELSE ""
        ELSE IF block_type = 30
        THEN IF Truthy(block.token) THEN "[SHEET_TOKEN:" \o block.token \o "]" ELSE "[SHEET]"
        ELSE IF block_type = 43 THEN "[BOARD]"
        ELSE ""

StaticUrl(filename) == "http://localhost:48080/static/" \o filename

\* C13 mutant: the remote URL is preferred to the saved file
ImageFragmentRemoteFirst(token, image_counter) ==
    IF Truthy(DictGet(image_urls, token, None))
    THEN "[Image" \o ToString(image_counter) \o "](" \o DictGet(image_urls, token, None) \o ")"
    ELSE IF DictHas(image_filename_map, token)
    THEN "[Image" \o ToString(image_counter) \o "]("
         \o StaticUrl(DictGet(image_filename_map, token, None)) \o ")"
    ELSE "[Image" \o ToString(image_counter) \o "](IMAGE_TOKEN:" \o token \o ")"

\* the fragment of an image block with a token
ImageFragment(token, image_counter) ==
    IF DictHas(image_filename_map, token)
    THEN "[Image" \o ToString(image_counter) \o "]("
         \o StaticUrl(DictGet(image_filename_map, token, None)) \o ")"
    ELSE IF Truthy(DictGet(image_urls, token, None))
    THEN "[Image" \o ToString(image_counter) \o "](" \o DictGet(image_urls, token, None) \o ")"
    ELSE "[Image" \o ToString(image_counter) \o "](IMAGE_TOKEN:" \o token \o ")"

\* the fragment of a board block with a token
BoardFragment(token, board_number) ==
    Join("\n",
         <<"**Board " \o ToString(board_number) \o ":**\n">>
         \o (IF DictHas(board_contents, token)
             THEN <<DictGet(board_contents, token, None)>> ELSE <<>>)
         \o (IF DictHas(board_filename_map, token)
             THEN <<"\n![Board " \o ToString(board_number) \o " Diagram]("
                    \o StaticUrl(DictGet(board_filename_map, token, None)) \o ")">>
             ELSE IF ~DictHas(board_contents, token)
             THEN <<"[BOARD_TOKEN:" \o token \o " - Unable to fetch]">>
             ELSE <<>>))

\* C2 mutant: a block without text appends its empty fragment
RECURSIVE RenderBlocksEveryBlock(_, _, _, _)
RenderBlocksEveryBlock(blocks, parts, image_counter, board_counter) ==
    IF blocks = <<>> THEN parts
    ELSE LET block == blocks[1]
             rest == Tail(blocks)
             token == block.token
         IN  IF block.block_type = 27 /\ Truthy(token)
             THEN RenderBlocksEveryBlock(rest,
                      Append(parts, ImageFragment(token, image_counter + 1)),
                      image_counter + 1, board_counter)
             ELSE IF block.block_type = 43 /\ Truthy(token)
             THEN RenderBlocksEveryBlock(rest,
                      Append(parts, BoardFragment(token, DictGet(board_token_to_index, token, 0))),
                      image_counter, board_counter)
             ELSE IF block.block_type = 43
             THEN RenderBlocksEveryBlock(rest,
                      Append(parts, "**Board " \o ToString(board_counter + 1)
                                    \o ":**\n[BOARD - No token]"),
                      image_counter, board_counter + 1)
             ELSE IF block.block_type = 30
             THEN RenderBlocksEveryBlock(rest,
                      Append(parts, IF Truthy(token)
                                    THEN DictGet(sheet_contents, token,
                                                 "[SHEET_TOKEN:" \o token \o "]")
                                    ELSE "[SHEET]"),
                      image_counter, board_counter)
             ELSE RenderBlocksEveryBlock(rest,
                      Append(parts, IF block.block_type = 27 THEN ""
                                    ELSE _extract_text_from_block(block)),
                      image_counter, board_counter)

\* for block in all_blocks: ... content_parts.append(...)
RECURSIVE RenderBlocks(_, _, _, _)
RenderBlocks(blocks, parts, image_counter, board_counter) ==
    IF blocks = <<>> THEN parts
    ELSE LET block == blocks[1]
             rest == Tail(blocks)
             token == block.token
         IN  IF block.block_type = 27
             THEN IF Truthy(token)
                  THEN RenderBlocks(rest,
                                    Append(parts, ImageFragment(token, image_counter + 1)),
                                    image_counter + 1, board_counter)
                  ELSE RenderBlocks(rest, parts, image_counter, board_counter)
             ELSE IF block.block_type = 43
             THEN IF Truthy(token)
                  THEN LET known == DictGet(board_token_to_index, token, 0)
                           counter == IF known = 0 THEN board_counter + 1 ELSE board_counter
                           board_number == IF known = 0 THEN counter ELSE known
                       IN  RenderBlocks(rest, Append(parts, BoardFragment(token, board_number)),
                                        image_counter, counter)
                  ELSE RenderBlocks(rest,
                                    Append(parts, "**Board " \o ToString(board_counter + 1)
                                                  \o ":**\n[BOARD - No token]"),
                                    image_counter, board_counter + 1)
             ELSE IF block.block_type = 30
             THEN IF Truthy(token)
                  THEN RenderBlocks(rest,
                                    Append(parts, DictGet(sheet_contents, token,
                                                          "[SHEET_TOKEN:" \o token \o "]")),
                                    image_counter, board_counter)
                  ELSE RenderBlocks(rest, Append(parts, "[SHEET]"), image_counter, board_counter)
             ELSE IF _extract_text_from_block(block) # ""
             THEN RenderBlocks(rest, Append(parts, _extract_text_from_block(block)),
                               image_counter, board_counter)
             ELSE RenderBlocks(rest, parts, image_counter, board_counter)

\* the rendering loop, '\n\n'.join(content_parts) and the success result
Render ==
    /\ pc = "render"
    /\ pages' = <<>>
    /\ content_parts' = RenderBlocks(all_blocks, <<>>, 0, 0)
    /\ result' = SuccessResult(Join("\n\n", RenderBlocks(all_blocks, <<>>, 0, 0)))
    /\ pc' = "done"
    /\ bearer_token' = None
    /\ UNCHANGED <<authVars, env, now, state_counter, uuid_counter, args,
                   page_token, has_more, all_blocks, mediaVars, requests>>
    /\ UNCHANGED <<call, callback>>

----------------------------------------------------------------------------

Next ==
    \/ Tick
    \/ lark_docs
    \/ lark_docs_token
    \/ FetchBlocksPage
    \/ FetchImageUrl
    \/ DownloadImage
    \/ FetchSheetMetadata
    \/ FetchSheetValues
    \/ FetchSheetValuesV3
    \/ FetchBoardNodes
    \/ DownloadBoardImage
    \/ Render

Spec == Init /\ [][Next]_vars

----------------------------------------------------------------------------
(* The pure helpers of tools.py, called directly *)

\* cell values, as the sequences of their characters
Cells == { <<>>, <<"a">>, <<"|">>, <<"x", "|", "y">> }

\* the rows and the non-empty grids a values request can give
Rows == UNION { [1..n -> Cells] : n \in 0..MaxRowLen }
Grids == UNION { [1..n -> Rows] : n \in 1..MaxGridRows }

\* the table lines _fetch_sheet_content builds for a grid of values
CallTableLines ==
    /\ call = NoCall
    /\ \E values \in Grids, column_count \in 1..MaxColumnCount :
          call' = [fn |-> "table_lines",
                   arg |-> [values |-> values, column_count |-> column_count],
                   out |-> TableLines(values, column_count, 1)]
    /\ UNCHANGED progVars
    /\ UNCHANGED callback

\* _column_number_to_letters(n)
CallColumnLetters ==
    /\ call = NoCall
    /\ \E n \in 1..MaxColumn :
          call' = [fn |-> "_column_number_to_letters", arg |-> n,
                   out |-> _column_number_to_letters(n)]
    /\ UNCHANGED progVars
    /\ UNCHANGED callback

\* the ids a connector starts at: none, a life line, a child id with a
\* prefix, two shapes
StartIds == { "", "l2", "s5:1", "a1", "a2" }

\* the node graphs of the boards: two life lines, labelled or not, with or
\* without children; two shapes with or without a parent, which may be each
\* other; a connector above or below a second one
Boards ==
    { << Connector("c1", y, start, end_x, "call", "triangle"),
         LifeLine("l1", t1, 0, ch1),
         Shape("a1", p1),
         Connector("c2", 2, "l1", 0, "", "none"),
         LifeLine("l2", t2, 10, ch2),
         Shape("a2", p2) >> :
        y \in {1, 3}, start \in StartIds, end_x \in {2, 8},
        t1 \in {"Alice", ""}, ch1 \in { <<>>, <<"s5:2">>, <<"a1">> },
        t2 \in {"Bob", ""}, ch2 \in { <<>>, <<"s5:1">> },
        p1 \in {"", "a2", "l1"}, p2 \in {"", "a1", "l2"} }

\* _parse_board_nodes(nodes_data)
CallParseBoardNodes ==
    /\ call = NoCall
    /\ \E nodes \in Boards :
          call' = [fn |-> "_parse_board_nodes", arg |-> nodes,
                   out |-> _parse_board_nodes([present |-> TRUE, nodes |-> nodes])]
    /\ UNCHANGED progVars
    /\ UNCHANGED callback

\* find_parent_life_line(node_id) on the nodes of a board
CallFindParentLifeLine ==
    /\ call = NoCall
    /\ \E nodes \in Boards, node_id \in StartIds :
          call' = [fn |-> "find_parent_life_line",
                   arg |-> [nodes |-> nodes, node_id |-> node_id],
                   out |-> find_parent_life_line(nodes, node_id, 1)]
    /\ UNCHANGED progVars
    /\ UNCHANGED callback

HelperNext ==
    \/ CallTableLines
    \/ CallColumnLetters
    \/ CallParseBoardNodes
    \/ CallFindParentLifeLine

\* the helpers read neither the credential store nor the environment: one
\* initial state
HelperInit ==
    /\ Init
    /\ user_access_token = None
    /\ env.LARKS_BEARER_TOKEN = ""
    /\ env.LARKS_CLIENT_ID = ""

HelperSpec == HelperInit /\ [][HelperNext]_vars

----------------------------------------------------------------------------
(* The login callback beside one lark_docs invocation *)

\* query parameters of the request to /oauth/callback
CallbackCodes == { None, "code-1" }
CallbackStates == { None, FreshState(1), "state-x" }
CallbackErrors == { None, "access_denied" }

\* expires_in of a token response: absent, a number of seconds, a string
ExpiresIn ==
    { [type |-> "absent", value |-> 0],
      [type |-> "int", value |-> ExpiryBuffer + 1],
      [type |-> "str", value |-> ExpiryBuffer + 1] }

\* what the token endpoint can answer
TokenResponses ==
    { [kind |-> k, expires_in |-> [type |-> "absent", value |-> 0]] :
        k \in { "transport_error", "invalid_json", "http_error", "oauth_error",
                "api_error", "no_access_token" } }
    \cup { [kind |-> "token", expires_in |-> e] : e \in ExpiresIn }

\* exchange_code_for_token from the response on: how the call ends and what
\* the store holds then. The access and the refresh token are assigned
\* before expires_in is added to the clock, which raises TypeError for a
\* string.
Exchanged(response) ==
    IF response.kind # "token"
    THEN [outcome |-> response.kind, access |-> user_access_token,
          refresh |-> user_refresh_token, expires_at |-> user_access_token_expires_at]
    ELSE IF response.expires_in.type = "str"
    THEN [outcome |-> "login_failed", access |-> "t-new", refresh |-> "r-new",
          expires_at |-> user_access_token_expires_at]
    ELSE [outcome |-> "ok", access |-> "t-new", refresh |-> "r-new",
          expires_at |-> IF response.expires_in.type = "int" /\ response.expires_in.value # 0
                         THEN now + response.expires_in.value
                         ELSE NoExpiry]

\* oauth_callback, lark_login_callback and exchange_code_for_token up to the
\* request to the token endpoint; the state parameter is passed on and read
\* by nobody
oauth_callback ==
    /\ callback.pc = "idle"
    /\ \E code \in CallbackCodes, state \in CallbackStates, error \in CallbackErrors :
          IF Truthy(error) \/ ~Truthy(code)
          THEN callback' = [pc |-> "done", state |-> state, client |-> None,
                            outcome |-> "rejected", during |-> pc]
          ELSE LET oauth_config == get_oauth_config(NoConfig, stored_oauth_config)
               IN  IF oauth_config.client_id = "" \/ oauth_config.client_secret = ""
                   THEN callback' = [pc |-> "done", state |-> state, client |-> None,
                                     outcome |-> "not_configured", during |-> pc]
                   ELSE callback' = [pc |-> "exchanging", state |-> state,
                                     client |-> oauth_config.client_id,
                                     outcome |-> None, during |-> None]
    /\ UNCHANGED <<progVars, call>>

\* the token endpoint answers: the rest of exchange_code_for_token
ExchangeResponse ==
    /\ callback.pc = "exchanging"
    /\ \E response \in TokenResponses :
          LET exchanged == Exchanged(response)
          IN  /\ user_access_token' = exchanged.access
              /\ user_refresh_token' = exchanged.refresh
              /\ user_access_token_expires_at' = exchanged.expires_at
              /\ callback' = [callback EXCEPT !.pc = "done",
                                              !.outcome = exchanged.outcome,
                                              !.during = pc]
    /\ UNCHANGED <<stored_oauth_config, env, now, state_counter, uuid_counter,
                   pc, args, bearer_token, page_token, has_more, all_blocks,
                   mediaVars, content_parts, result, requests, pages, call>>

\* auth.clear_tokens, called by the failure handling of another invocation
clear_tokens ==
    /\ user_access_token' = None
    /\ user_refresh_token' = None
    /\ user_access_token_expires_at' = NoExpiry
    /\ UNCHANGED <<stored_oauth_config, env, now, state_counter, uuid_counter,
                   pc, args, bearer_token, page_token, has_more, all_blocks,
                   mediaVars, content_parts, result, requests, pages, call, callback>>

\* time.time() advances, wherever the invocation and the callback stand
ClockAdvances ==
    /\ now < MaxTime
    /\ now' = now + 1
    /\ UNCHANGED <<authVars, env, state_counter, uuid_counter, pc, args, bearer_token,
                   page_token, has_more, all_blocks, mediaVars, content_parts, result,
                   requests, pages, call, callback>>

\* the block request of the invocation fails
FetchBlocksFails == FetchBlocksPage /\ pc' = "done"

LoginNext ==
    \/ ClockAdvances
    \/ lark_docs
    \/ lark_docs_token
    \/ FetchBlocksFails
    \/ oauth_callback
    \/ ExchangeResponse
    \/ clear_tokens

LoginSpec == Init /\ [][LoginNext]_vars

----------------------------------------------------------------------------
(* Properties: vocabulary *)

\* lark_docs has returned its success result
Succeeded == pc = "done" /\ result.success

Min(S) == CHOOSE x \in S : \A y \in S : x <= y
Max(S) == CHOOSE x \in S : \A y \in S : x >= y

\* the page answers received by the block fetch under way or just completed,
\* none of them a failure
PagesOk == pages # <<>> /\ \A k \in 1..Len(pages) : pages[k].error = None

\* the items of the answers, in the order received
RECURSIVE FlatItems(_)
FlatItems(ps) == IF ps = <<>> THEN <<>> ELSE ps[1].items \o FlatItems(Tail(ps))

\* the positions at which an id was received
IdPositions(flat, id) == { k \in 1..Len(flat) : flat[k].block_id = id }

\* the number of requests made to an endpoint for an argument
RequestCount(ep, arg) ==
    Cardinality({ k \in 1..Len(requests) : requests[k].ep = ep /\ requests[k].arg = arg })

IsImage(block) == block.block_type = 27 /\ block.token \notin {None, ""}
IsBoard(block) == block.block_type = 43 /\ block.token \notin {None, ""}

\* the block renders to a non-empty text
Emits(block) ==
    IF block.block_type = 27 THEN block.token \notin {None, ""}
    ELSE IF block.block_type \in {30, 43} THEN TRUE
    ELSE block.block_type \in 1..14 /\ block.text # ""

\* the position in content_parts of the fragment of the i-th block
FragIndex(i) == Cardinality({ j \in 1..i : Emits(all_blocks[j]) })

\* the number an image block is labelled with
ImageNumber(i) == Cardinality({ j \in 1..i : IsImage(all_blocks[j]) })

ImageLabel(i) == "[Image" \o ToString(ImageNumber(i)) \o "]("

\* what an image fragment can refer to: the token placeholder, the resolved
\* URL, a saved file
Placeholder(token) == "IMAGE_TOKEN:" \o token
ResolvedRefs(token) ==
    { "https://cdn/" \o token }
    \cup { "http://localhost:48080/static/file-" \o ToString(n) \o ".jpg" : n \in 1..uuid_counter }

----------------------------------------------------------------------------
(* C1: image-URL requests per distinct token *)

\* C1 (as stated; the code departs from it): when lark_docs succeeds, every
\* image token of the document was sent to the image-URL endpoint exactly once,
\* however many blocks carry it, and all blocks carrying one token render with
\* the same reference.
C1_ImageUrlOncePerToken ==
    Succeeded =>
        \A i \in 1..Len(all_blocks) :
            IsImage(all_blocks[i]) =>
                /\ RequestCount("image_url", all_blocks[i].token) = 1
                /\ \A j \in 1..Len(all_blocks) :
                      all_blocks[j].token = all_blocks[i].token /\ IsImage(all_blocks[j]) =>
                          \E ref \in {Placeholder(all_blocks[i].token)}
                                     \cup ResolvedRefs(all_blocks[i].token) :
                              /\ content_parts[FragIndex(i)] = ImageLabel(i) \o ref \o ")"
                              /\ content_parts[FragIndex(j)] = ImageLabel(j) \o ref \o ")"

----------------------------------------------------------------------------
(* C2: fragments of the rendering *)

FragmentOf(fragment, i) ==
    LET block == all_blocks[i]
    IN  IF block.block_type = 27
        THEN \E ref \in {Placeholder(block.token)} \cup ResolvedRefs(block.token) :
                 fragment = ImageLabel(i) \o ref \o ")"
        ELSE IF block.block_type = 30
        THEN IF block.token \in {None, ""} THEN fragment = "[SHEET]"
             ELSE \E k \in 1..Len(sheet_contents) :
                      sheet_contents[k] = <<block.token, fragment>>
        ELSE IF block.block_type = 43
        THEN \E n \in 1..Len(all_blocks) :
                 IF block.token \in {None, ""}
                 THEN fragment = "**Board " \o ToString(n) \o ":**\n[BOARD - No token]"
                 ELSE fragment = BoardFragment(block.token, n)
        ELSE fragment = _extract_text_from_block(block)

----------------------------------------------------------------------------
(* C3: board numbering *)

\* the rank of a board token among the distinct board tokens, by first
\* occurrence in block order
BoardRank(token) ==
    LET first == Min({ i \in 1..Len(all_blocks) :
                         IsBoard(all_blocks[i]) /\ all_blocks[i].token = token })
    IN  Cardinality({ all_blocks[j].token : j \in { k \in 1..first : IsBoard(all_blocks[k]) } })

\* C3 (as stated; the code departs from it): every block carrying a board
\* token is rendered as 'Board i', i the rank of its token by first occurrence.
C3_BoardFirstSeenNumbering ==
    Succeeded =>
        \A i \in 1..Len(all_blocks) :
            IsBoard(all_blocks[i]) =>
                content_parts[FragIndex(i)]
                    = BoardFragment(all_blocks[i].token, BoardRank(all_blocks[i].token))

----------------------------------------------------------------------------
(* C4, C5: deduplication of the fetched blocks *)

C5_LastWriteWins ==
    PagesOk =>
        \A i \in 1..Len(all_blocks) :
            all_blocks[i] = FlatItems(pages)[Max(IdPositions(FlatItems(pages),
                                                             all_blocks[i].block_id))]

\* C5 (amended): the block kept for an id is the first one received with it,
\* at the position of that first occurrence among the ids received.
C5_FirstWriteWins ==
    PagesOk =>
        LET flat == FlatItems(pages)
        IN  \A i \in 1..Len(all_blocks) :
                LET first == Min(IdPositions(flat, all_blocks[i].block_id))
                IN  /\ all_blocks[i] = flat[first]
                    /\ i = Cardinality({ flat[k].block_id : k \in 1..first } \ {""})

\* one id was received twice with different payloads, and the fetch is over
C5_Witness ==
    /\ PagesOk
    /\ pc # "blocks"
    /\ \E k, l \in 1..Len(FlatItems(pages)) :
          /\ k < l
          /\ FlatItems(pages)[k].block_id # ""
          /\ FlatItems(pages)[k].block_id = FlatItems(pages)[l].block_id
          /\ FlatItems(pages)[k] # FlatItems(pages)[l]
          /\ all_blocks = << FlatItems(pages)[k] >>

----------------------------------------------------------------------------
(* C6: the end of the page loop *)

\* the answer ends the stream: has_more false, or no next page token
Terminal(answer) == answer.has_more = FALSE \/ answer.page_token \in {None, ""}

\* C6: the page loop stops at the first answer that has has_more false or no
\* next token: every answer before the last one received is not such an
\* answer, the loop goes on only after an answer that is not, every answer
\* received took one request, and no page request follows a request to
\* another endpoint.
C6_StopsAtTerminalPage ==
    /\ \A k \in 1..(Len(pages) - 1) : pages[k].error = None /\ ~Terminal(pages[k])
    /\ (pc = "blocks" /\ pages # <<>>) =>
          pages[Len(pages)].error = None /\ ~Terminal(pages[Len(pages)])
    /\ pages # <<>> => Len(BlockRequests) = Len(pages)
    /\ \A i, j \in 1..Len(requests) :
          i < j /\ requests[j].ep = "blocks" => requests[i].ep = "blocks"

\* an answer with has_more true and no token has ended the fetch
C6_Witness ==
    /\ PagesOk
    /\ pages[Len(pages)].has_more = TRUE
    /\ pages[Len(pages)].page_token \in {None, ""}
    /\ pc \notin {"blocks", "done"}
    /\ Len(BlockRequests) = Len(pages)

----------------------------------------------------------------------------
(* C7: a failed page request *)

\* a client id is configured, by the caller or by the environment
ClientKnown == args.oauth_config.LARKS_CLIENT_ID # None \/ env.LARKS_CLIENT_ID # ""

\* C7: when a block-page request fails, lark_docs returns a failure that asks
\* for a login, no request to a media endpoint has been made, the stored
\* access token, refresh token and expiry are cleared, and the login flow has
\* run: with a client id configured the result carries the authorization URL
\* and the state value drawn for it.
C7_BlockFailureAborts ==
    (pages # <<>> /\ pages[Len(pages)].error # None) =>
        /\ pc = "done"
        /\ result.success = FALSE
        /\ result.needsLogin = TRUE
        /\ \A k \in 1..Len(requests) : requests[k].ep = "blocks"
        /\ user_access_token = None
        /\ user_refresh_token = None
        /\ user_access_token_expires_at = NoExpiry
        /\ ClientKnown =>
              /\ state_counter >= 1
              /\ result.state = "state-" \o ToString(state_counter)
              /\ result.authorization_url \notin {None, ""}

\* the second page request of a fetch has failed
C7_Witness ==
    /\ Len(pages) = 2
    /\ pages[2].error # None
    /\ result.needsLogin
    /\ user_access_token = None

----------------------------------------------------------------------------
(* C8: the login a failure asks for *)

\* C8 (as stated; the code departs from it): a result with needsLogin carries
\* a non-empty authorization URL and a non-empty state.
C8_NeedsLoginCarriesUrl ==
    (pc = "done" /\ result.needsLogin) =>
        /\ result.authorization_url \notin {None, ""}
        /\ result.state \notin {None, ""}

----------------------------------------------------------------------------
(* C9: the error of a failure *)

\* C9: every failure result of lark_docs carries a non-empty error string.
C9_FailureHasError ==
    (pc = "done" /\ result.success = FALSE) => result.error \notin {None, ""}

\* lark_docs has failed for want of an access token and asks for a login
C9_Witness ==
    /\ pc = "done"
    /\ result.success = FALSE
    /\ result.needsLogin
    /\ result.error = NoAccessTokenError

----------------------------------------------------------------------------
(* C10: failures of media resolution *)

MediaEndpoints ==
    { "image_url", "download", "sheet_meta", "sheet_values_v2", "sheet_values_v3",
      "board_nodes", "board_image" }

\* the tokens of the blocks of a type, as a set
TokenSet(type) ==
    { all_blocks[i].token : i \in { j \in 1..Len(all_blocks) :
                                      /\ all_blocks[j].block_type = type
                                      /\ all_blocks[j].token \notin {None, ""} } }

\* the sheet tokens of the model that hold no '_'
Unsplittable == { "shtX" }

\* the image token has no resolved URL
Unresolved(token) == \A k \in 1..Len(image_urls) : image_urls[k][1] # token

\* C10: once lark_docs has made a request to a media endpoint it ends in
\* success whatever the answers were; then every image token has had its URL
\* request, every resolved URL its download, every sheet token with a '_' its
\* metadata request and every board token its nodes request and its snapshot download;
\* an image block whose token got no URL renders as the token placeholder and
\* an image block whose token got one renders with the URL or the file saved
\* from it.
C10_MediaFailuresDoNotAbort ==
    /\ (pc = "done" /\ \E k \in 1..Len(requests) : requests[k].ep \in MediaEndpoints) =>
          result.success
    /\ Succeeded =>
          /\ \A t \in TokenSet(27) : RequestCount("image_url", t) >= 1
          /\ \A k \in 1..Len(image_urls) : RequestCount("download", image_urls[k][2]) >= 1
          /\ \A t \in TokenSet(30) \ Unsplittable : RequestCount("sheet_meta", t) >= 1
          /\ \A t \in TokenSet(43) :
                RequestCount("board_nodes", t) >= 1 /\ RequestCount("board_image", t) >= 1
          /\ \A i \in 1..Len(all_blocks) :
                IsImage(all_blocks[i]) =>
                    IF Unresolved(all_blocks[i].token)
                    THEN content_parts[FragIndex(i)]
                             = ImageLabel(i) \o Placeholder(all_blocks[i].token) \o ")"
                    ELSE \E ref \in ResolvedRefs(all_blocks[i].token) :
                             content_parts[FragIndex(i)] = ImageLabel(i) \o ref \o ")"

\* two image blocks, the URL request of the first token failed and the one of
\* the second token was answered: success, a placeholder and a resolved URL
C10_Witness ==
    /\ Succeeded
    /\ Len(all_blocks) = 2
    /\ IsImage(all_blocks[1]) /\ IsImage(all_blocks[2])
    /\ Unresolved(all_blocks[1].token)
    /\ ~Unresolved(all_blocks[2].token)
    /\ content_parts[1] = "[Image1](IMAGE_TOKEN:" \o all_blocks[1].token \o ")"
    /\ \E ref \in ResolvedRefs(all_blocks[2].token) :
          content_parts[2] = "[Image2](" \o ref \o ")"

----------------------------------------------------------------------------
(* C11: sheet and board requests per distinct token *)

\* C11 (as stated; the code departs from it): when lark_docs succeeds, every
\* sheet token of the document has had exactly one metadata request and
\* every board token exactly one nodes request and exactly one snapshot
\* download, however many blocks carry the token.
C11_MediaOncePerToken ==
    Succeeded =>
        /\ \A t \in TokenSet(30) : RequestCount("sheet_meta", t) = 1
        /\ \A t \in TokenSet(43) :
              RequestCount("board_nodes", t) = 1 /\ RequestCount("board_image", t) = 1

----------------------------------------------------------------------------
(* C12: the two sub-fetches of a board *)

\* a request to the endpoint for the argument was answered successfully
Answered(ep, arg) ==
    \E k \in 1..Len(requests) :
        requests[k].ep = ep /\ requests[k].arg = arg /\ requests[k].answer = "ok"

\* the texts a parsed node graph can give
BoardTexts == { _parse_board_nodes(d) : d \in BoardNodesData }

\* the fragment of a board numbered n that holds the text iff text is
\* wanted, the snapshot reference iff the snapshot is wanted, and the
\* placeholder iff neither is
BoardSection(token, n, text, withText, withSnapshot) ==
    Join("\n",
         <<"**Board " \o ToString(n) \o ":**\n">>
         \o (IF withText THEN <<text>> ELSE <<>>)
         \o (IF withSnapshot
             THEN <<"\n![Board " \o ToString(n) \o " Diagram]("
                    \o "http://localhost:48080/static/"
                    \o DictGet(board_filename_map, token, "") \o ")">>
             ELSE <<>>)
         \o (IF ~withText /\ ~withSnapshot
             THEN <<"[BOARD_TOKEN:" \o token \o " - Unable to fetch]">>
             ELSE <<>>))

\* C12 (as stated; the code departs from it): when lark_docs succeeds, every
\* board token has had its nodes request and its snapshot download, and the
\* fragment of a block carrying it holds the parsed text iff a nodes request
\* for the token succeeded, the snapshot reference iff a snapshot download
\* for it succeeded, and the 'Unable to fetch' placeholder iff none did.
C12_BoardSubFetchesIndependent ==
    Succeeded =>
        \A i \in 1..Len(all_blocks) :
            IsBoard(all_blocks[i]) =>
                LET token == all_blocks[i].token
                IN  /\ RequestCount("board_nodes", token) >= 1
                    /\ RequestCount("board_image", token) >= 1
                    /\ \E n \in 1..Len(all_blocks), text \in BoardTexts :
                          content_parts[FragIndex(i)]
                              = BoardSection(token, n, text,
                                             Answered("board_nodes", token),
                                             Answered("board_image", token))

----------------------------------------------------------------------------
(* C13: the reference and the label of an image block *)

\* the temporary URL the URL requests gave for the token, None if none
UrlOf(token) ==
    IF Unresolved(token) THEN None
    ELSE image_urls[CHOOSE k \in 1..Len(image_urls) : image_urls[k][1] = token][2]

----------------------------------------------------------------------------
(* C14: metadata before values *)

\* the request made by the step, if the step made one
NewRequest == requests'[Len(requests')]

----------------------------------------------------------------------------
(* C15: the two versions of the values endpoint *)

ValuesEndpoints == {"sheet_values_v2", "sheet_values_v3"}

\* C15: a v3 values request is made iff the request before it is the v2
\* request for the same range and was answered not-found: every v3 request
\* directly follows such a v2 request, a v2 request answered not-found is
\* directly followed by the v3 request (or that request is the next thing
\* lark_docs does), and after a v2 request answered otherwise, or after a v3
\* request, no values request follows for the sheet.
C15_FallbackOnlyOnNotFound ==
    \A k \in 1..Len(requests) :
        LET last == k = Len(requests)
        IN  /\ requests[k].ep = "sheet_values_v3" =>
                  /\ k > 1
                  /\ requests[k - 1].ep = "sheet_values_v2"
                  /\ requests[k - 1].answer = "not_found"
                  /\ requests[k - 1].arg = requests[k].arg
                  /\ IF last THEN pc \notin {"sheet_values", "sheet_values_v3"}
                     ELSE requests[k + 1].ep \notin ValuesEndpoints
            /\ (requests[k].ep = "sheet_values_v2" /\ requests[k].answer = "not_found") =>
                  IF last THEN pc = "sheet_values_v3"
                  ELSE /\ requests[k + 1].ep = "sheet_values_v3"
                       /\ requests[k + 1].arg = requests[k].arg
            /\ (requests[k].ep = "sheet_values_v2" /\ requests[k].answer # "not_found") =>
                  IF last THEN pc \notin {"sheet_values", "sheet_values_v3"}
                  ELSE requests[k + 1].ep \notin ValuesEndpoints
            /\ (requests[k].ep = "sheet_values_v2" /\ requests[k].answer = "error" /\ last) =>
                  \E j \in 1..Len(sheet_contents), e \in ValuesErrors :
                      sheet_contents[j] = << requests[k - 1].arg,
                                             "[SHEET_TOKEN:" \o requests[k - 1].arg
                                             \o " - Error: " \o e \o "]" >>

\* the v2 request was answered not-found and the v3 request gave the values
C15_Witness ==
    /\ Succeeded
    /\ \E k \in 1..(Len(requests) - 1) :
          /\ requests[k].ep = "sheet_values_v2"
          /\ requests[k].answer = "not_found"
          /\ requests[k + 1].ep = "sheet_values_v3"
          /\ requests[k + 1].answer = "ok"

----------------------------------------------------------------------------
(* C16: failures of the resolution of a sheet *)

\* the content the sheet loop has stored for the token, None if none
SheetContentOf(token) ==
    IF \E k \in 1..Len(sheet_contents) : sheet_contents[k][1] = token
    THEN sheet_contents[CHOOSE k \in 1..Len(sheet_contents) : sheet_contents[k][1] = token][2]
    ELSE None

\* the sheet loop is over
SheetsDone == pc \in {"board_nodes", "board_image", "render"} \/ Succeeded

\* C16 (as stated): also a sheet token that cannot be split is resolved to a
\* placeholder that holds more than the token, namely a reason.
C16_EveryFailureNamesReason ==
    SheetsDone =>
        \A t \in TokenSet(30) \cap Unsplittable :
            SheetContentOf(t) # "[SHEET_TOKEN:" \o t \o "]"

\* C16 (amended): the resolution of a sheet never raises, so that lark_docs
\* succeeds whenever it has made a sheet request; a failed metadata or values
\* request resolves the token to '[SHEET_TOKEN:<token> - Error: <reason>]',
\* the reason being the message of the failure; a token without '_' is
\* resolved without any request to the bare placeholder
\* '[SHEET_TOKEN:<token>]', which names no reason.
C16_SheetFailurePlaceholders ==
    /\ (pc = "done" /\ \E k \in 1..Len(requests) :
                           requests[k].ep \in {"sheet_meta", "sheet_values_v2", "sheet_values_v3"})
           => result.success
    /\ SheetsDone =>
          \A t \in TokenSet(30) \cap Unsplittable :
              /\ SheetContentOf(t) = "[SHEET_TOKEN:" \o t \o "]"
              /\ RequestCount("sheet_meta", t) = 0
    /\ requests # <<>> =>
          LET n == Len(requests)
              last == requests[n]
          IN  /\ (last.ep = "sheet_meta" /\ last.answer = "error") =>
                    \E e \in {"Failed to fetch sheet metadata: 500"} :
                        SheetContentOf(last.arg)
                            = "[SHEET_TOKEN:" \o last.arg \o " - Error: " \o e \o "]"
              /\ (last.ep = "sheet_values_v2" /\ last.answer = "error") =>
                    \E e \in {"Failed to fetch sheet values: 500 error"} :
                        SheetContentOf(requests[n - 1].arg)
                            = "[SHEET_TOKEN:" \o requests[n - 1].arg \o " - Error: " \o e \o "]"
              /\ (last.ep = "sheet_values_v3" /\ last.answer = "error") =>
                    \E e \in {"Failed to fetch sheet values: 500 error"} :
                        SheetContentOf(requests[n - 2].arg)
                            = "[SHEET_TOKEN:" \o requests[n - 2].arg \o " - Error: " \o e \o "]"

\* a document of a sheet whose token cannot be split and a sheet whose
\* metadata request failed is rendered with both placeholders
C16_Witness ==
    /\ Succeeded
    /\ Len(all_blocks) = 2
    /\ content_parts = << "[SHEET_TOKEN:shtX]",
                          "[SHEET_TOKEN:sht_1 - Error: Failed to fetch sheet metadata: 500]" >>
    /\ requests[Len(requests)].ep = "sheet_meta"
    /\ requests[Len(requests)].answer = "error"

----------------------------------------------------------------------------
(* C17: the rendered sheet table *)

\* a cell as the table shows it: every "|" written as "\|"
EscapedText(cell) ==
    CASE cell = <<>> -> ""
      [] cell = <<"a">> -> "a"
      [] cell = <<"|">> -> "\\|"
      [] cell = <<"x", "|", "y">> -> "x\\|y"

\* cells j..column_count of a row, an absent cell shown empty
RECURSIVE CellsText(_, _, _)
CellsText(row, column_count, j) ==
    IF j > column_count THEN ""
    ELSE (IF j > 1 THEN " | " ELSE "")
         \o (IF j <= Len(row) THEN EscapedText(row[j]) ELSE "")
         \o CellsText(row, column_count, j + 1)

RowText(row, column_count) == "| " \o CellsText(row, column_count, 1) \o " |"

RECURSIVE DashesText(_, _)
DashesText(column_count, j) ==
    IF j > column_count THEN ""
    ELSE (IF j > 1 THEN "|" ELSE "") \o " --- " \o DashesText(column_count, j + 1)

SeparatorText(column_count) == "|" \o DashesText(column_count, 1) \o "|"

\* C17: every rendered row shows exactly column_count cells (a short row
\* padded with empty cells, a long row cut), every "|" of a cell is
\* written "\|", and there is exactly one separator row, right after the
\* first data row.
C17_TableRowsAndSeparator ==
    call.fn = "table_lines" =>
        LET values == call.arg.values
            column_count == call.arg.column_count
            lines == call.out
        IN  /\ Len(lines) = Len(values) + 1
            /\ lines[1] = RowText(values[1], column_count)
            /\ lines[2] = SeparatorText(column_count)
            /\ \A r \in 2..Len(values) :
                   lines[r + 1] = RowText(values[r], column_count)

\* a first row cut to one column with its pipe escaped, a second row padded
C17_Witness ==
    /\ call.fn = "table_lines"
    /\ call.arg.column_count = 1
    /\ call.arg.values = << << <<"x", "|", "y">>, <<"a">> >>, <<>> >>
    /\ call.out = << "| x\\|y |", "| --- |", "|  |" >>

----------------------------------------------------------------------------
(* C18: column letters *)

\* the strings over A..Z as sequences of digits 1..26: all of length 1
\* and 2, and those of length 3 that start with AA
DigitStrings ==
    [1..1 -> 1..26] \cup [1..2 -> 1..26] \cup { <<1, 1, c>> : c \in 1..26 }

\* the number a digit string stands for, most significant digit first
RECURSIVE DigitValue(_, _)
DigitValue(d, k) == IF k = 0 THEN 0 ELSE 26 * DigitValue(d, k - 1) + d[k]

RECURSIVE DigitText(_, _)
DigitText(d, k) ==
    IF k > Len(d) THEN ""
    ELSE (CASE d[k] = 1 -> "A" [] d[k] = 2 -> "B" [] d[k] = 3 -> "C"
            [] d[k] = 4 -> "D" [] d[k] = 5 -> "E" [] d[k] = 6 -> "F"
            [] d[k] = 7 -> "G" [] d[k] = 8 -> "H" [] d[k] = 9 -> "I"
            [] d[k] = 10 -> "J" [] d[k] = 11 -> "K" [] d[k] = 12 -> "L"
            [] d[k] = 13 -> "M" [] d[k] = 14 -> "N" [] d[k] = 15 -> "O"
            [] d[k] = 16 -> "P" [] d[k] = 17 -> "Q" [] d[k] = 18 -> "R"
            [] d[k] = 19 -> "S" [] d[k] = 20 -> "T" [] d[k] = 21 -> "U"
            [] d[k] = 22 -> "V" [] d[k] = 23 -> "W" [] d[k] = 24 -> "X"
            [] d[k] = 25 -> "Y" [] d[k] = 26 -> "Z")
         \o DigitText(d, k + 1)

NamedColumns ==
    { <<1, "A">>, <<26, "Z">>, <<27, "AA">>, <<52, "AZ">>, <<53, "BA">>,
      <<702, "ZZ">>, <<703, "AAA">> }

\* C18: _column_number_to_letters is a bijection from the positive
\* integers to the non-empty strings over A..Z: no other number gives the
\* string a number gives, every string over A..Z is what its number gives,
\* and 1->A, 26->Z, 27->AA, 52->AZ, 53->BA, 702->ZZ, 703->AAA.
C18_ColumnLettersBijection ==
    call.fn = "_column_number_to_letters" =>
        LET n == call.arg
            letters == call.out
        IN  /\ \A m \in (1..MaxColumn) \ {n} :
                   _column_number_to_letters(m) # letters
            /\ \E d \in DigitStrings : DigitValue(d, Len(d)) = n
            /\ \A d \in DigitStrings :
                   DigitValue(d, Len(d)) = n => letters = DigitText(d, 1)
            /\ \A c \in NamedColumns : c[1] = n => letters = c[2]

\* the first three-letter column
C18_Witness ==
    /\ call.fn = "_column_number_to_letters"
    /\ call.arg = 703
    /\ call.out = "AAA"

----------------------------------------------------------------------------
(* C19: the credential get_bearer_token chooses *)

\* the step of lark_docs that calls get_bearer_token
TokenStep ==
    /\ pc = "authenticated"
    /\ pc' # "authenticated"
    /\ extract_document_id(args.url) # ""

Present(v) == v \notin {None, ""}

\* the call returns the first present credential, in the order parameter,
\* stored user token (when usable), environment; with none it raises
StrictPriority(userTokenUsable) ==
    IF Present(args.LARKS_BEARER_TOKEN)
    THEN pc' = "blocks" /\ bearer_token' = args.LARKS_BEARER_TOKEN
    ELSE IF Present(user_access_token) /\ userTokenUsable
    THEN pc' = "blocks" /\ bearer_token' = user_access_token
    ELSE IF Present(env.LARKS_BEARER_TOKEN)
    THEN pc' = "blocks" /\ bearer_token' = env.LARKS_BEARER_TOKEN
    ELSE pc' = "done" /\ result'.error = NoAccessTokenError /\ bearer_token' = None

\* C19, as stated: the stored user token is chosen whenever it is stored and
\* its expiry time has not passed.
C19_PriorityUntilExpiry ==
    [][TokenStep =>
         StrictPriority(\/ user_access_token_expires_at = NoExpiry
                        \/ now < user_access_token_expires_at)]_vars

\* C19: get_bearer_token returns the parameter if non-empty; otherwise the
\* stored user token if one is stored and the clock is more than 60 seconds
\* before its expiry time (or no expiry time is stored); otherwise the
\* LARKS_BEARER_TOKEN of the environment; it raises 'No access token
\* available' exactly when none of the three is there.
C19_PriorityWithExpiryBuffer ==
    [][TokenStep =>
         StrictPriority(\/ user_access_token_expires_at = NoExpiry
                        \/ now < user_access_token_expires_at - 60)]_vars

\* the environment's token was chosen while a token is stored whose expiry
\* time has not passed
C19_Witness ==
    /\ pc = "blocks"
    /\ requests = <<>>
    /\ ~Present(args.LARKS_BEARER_TOKEN)
    /\ Present(user_access_token)
    /\ now < user_access_token_expires_at
    /\ bearer_token = env.LARKS_BEARER_TOKEN
    /\ bearer_token = "t-env"

----------------------------------------------------------------------------
(* C20: the chain of block-page requests *)

\* C20: the block-page requests of one fetch are sequential and chained:
\* each request has its response before the next is sent, the first request
\* carries no page token, and every later request carries exactly the page
\* token of the response right before it (pages holds the responses while
\* the document is being fetched and resolved).
C20_PageRequestsChained ==
    LET sent == BlockRequests
    IN  /\ sent # <<>> => sent[1].arg = None
        /\ pages # <<>> => Len(sent) = Len(pages)
        /\ \A k \in 2..Len(pages) :
               /\ pages[k - 1].error = None
               /\ pages[k - 1].has_more
               /\ pages[k - 1].page_token \notin {None, ""}
               /\ sent[k].arg = pages[k - 1].page_token

\* a second page was requested with the token the first response gave
C20_Witness ==
    /\ Len(BlockRequests) = 2
    /\ BlockRequests[1].arg = None
    /\ pages[1].page_token = "pt2"
    /\ BlockRequests[2].arg = "pt2"

----------------------------------------------------------------------------
(* C21: the order of the requests of one invocation *)

\* the phase of lark_docs an endpoint belongs to
PhaseOf(ep) ==
    CASE ep = "blocks" -> 1
      [] ep = "image_url" -> 2
      [] ep = "download" -> 3
      [] ep \in {"sheet_meta", "sheet_values_v2", "sheet_values_v3"} -> 4
      [] ep \in {"board_nodes", "board_image"} -> 5

\* C21: the requests of one invocation are made one after the other, each
\* answered before the next is sent, in the order of the phases: block pages,
\* then image URLs, then image downloads, then sheets, then boards; and no
\* fragment is rendered before the last request has been answered.
C21_PhasesInOrder ==
    /\ \A j \in 1..Len(requests) : \A k \in j..Len(requests) :
           PhaseOf(requests[j].ep) <= PhaseOf(requests[k].ep)
    /\ \A k \in 1..Len(requests) : requests[k].answer \in {"ok", "not_found", "error"}
    /\ content_parts # <<>> => pc = "done"
    /\ pc \notin {"idle", "authenticated", "blocks", "done"} => content_parts = <<>>

\* a rendered document with a board block before an image block: the image
\* URL and the download were requested before the board's nodes and snapshot
C21_Witness ==
    /\ Succeeded
    /\ content_parts # <<>>
    /\ Len(all_blocks) = 2
    /\ IsBoard(all_blocks[1]) /\ IsImage(all_blocks[2])
    /\ \A p \in {1, 2, 3, 5} : \E k \in 1..Len(requests) : PhaseOf(requests[k].ep) = p

----------------------------------------------------------------------------
(* C30: the numbers of the board fragments *)

\* the fragment of the i-th block is a board fragment numbered n
CarriesBoardNumber(i, n) ==
    /\ all_blocks[i].block_type = 43
    /\ content_parts[FragIndex(i)]
         = (IF all_blocks[i].token \in {None, ""}
            THEN "**Board " \o ToString(n) \o ":**\n[BOARD - No token]"
            ELSE BoardFragment(all_blocks[i].token, n))

\* C30 (as stated; the code departs from it): two board fragments of one
\* rendered document carry the same number only if their blocks carry the
\* same non-empty board token.
C30_BoardNumbersDistinguishTokens ==
    Succeeded =>
        \A i, j \in 1..Len(all_blocks) : \A n \in 0..(Len(all_blocks) + 1) :
            (i < j /\ CarriesBoardNumber(i, n) /\ CarriesBoardNumber(j, n)) =>
                /\ all_blocks[i].token \notin {None, ""}
                /\ all_blocks[i].token = all_blocks[j].token

----------------------------------------------------------------------------
(* C22: the start life line of a connector *)

LifeLineIds(nodes) == { nodes[k].id : k \in { j \in 1..Len(nodes) : nodes[j].type = "life_line" } }

\* the life lines that list the id among their children
Containers(nodes, id) ==
    { nodes[k].id : k \in { j \in 1..Len(nodes) :
                              /\ nodes[j].type = "life_line"
                              /\ \E c \in 1..Len(nodes[j].children) : nodes[j].children[c] = id } }

\* the part of an id before its ':'
BeforeColon(id) == IF id \in {"s5:1", "s5:2"} THEN "s5" ELSE id

\* the life lines with a child that shares the id's prefix
PrefixOwners(nodes, id) ==
    { nodes[k].id : k \in { j \in 1..Len(nodes) :
                              /\ nodes[j].type = "life_line"
                              /\ \E c \in 1..Len(nodes[j].children) :
                                    BeforeColon(nodes[j].children[c]) = BeforeColon(id) } }

ParentOf(nodes, id) ==
    IF \E k \in 1..Len(nodes) : nodes[k].id = id
    THEN nodes[CHOOSE k \in 1..Len(nodes) : nodes[k].id = id].parent_id
    ELSE ""

\* the answers the stated order allows for an id: the id itself if it is a
\* life line; else a life line that lists it; else, if none lists it, a life
\* line with a child of its prefix; else what the order allows for its
\* parent; a chase longer than the board has nodes is a cycle
RECURSIVE StatedOwners(_, _, _)
StatedOwners(nodes, id, fuel) ==
    IF id = "" THEN {None}
    ELSE IF id \in LifeLineIds(nodes) THEN {id}
    ELSE IF Containers(nodes, id) # {} THEN Containers(nodes, id)
    ELSE IF PrefixOwners(nodes, id) # {} THEN PrefixOwners(nodes, id)
    ELSE IF fuel = 0 THEN {RecursionError}
    ELSE StatedOwners(nodes, ParentOf(nodes, id), fuel - 1)

\* C22 (as stated; the code departs from it): find_parent_life_line answers
\* in the order direct id match, explicit containment by any life line,
\* shared id-prefix only if no life line contains the id, parent chase; a
\* prefix match with one life line never wins over containment by another.
C22_ContainmentBeforePrefix ==
    call.fn = "find_parent_life_line" =>
        \/ call.out = RecursionError
        \/ call.out \in StatedOwners(call.arg.nodes, call.arg.node_id, Len(call.arg.nodes))

----------------------------------------------------------------------------
(* C23: the end life line of a connector and the order of the connectors *)

\* the life lines of the board nearest to x, labelled or not
NearestOfAll(nodes, x) ==
    { k \in 1..Len(nodes) :
        /\ nodes[k].type = "life_line"
        /\ \A j \in 1..Len(nodes) :
              nodes[j].type = "life_line" =>
                  Abs(x - nodes[k].x) <= Abs(x - nodes[j].x) }

\* the lines a connector may be described by when its end is the nearest of
\* all life lines
StatedLines(nodes, connector) ==
    { "- " \o LabelOf(nodes, find_parent_life_line(nodes, connector.start, 1))
      \o " " \o ArrowSymbol(connector.end_arrow) \o " "
      \o (IF nodes[k].text # "" THEN nodes[k].text ELSE "Unknown")
      \o (IF connector.caption # "" THEN ": " \o connector.caption ELSE "") :
        k \in NearestOfAll(nodes, connector.end_x) }

ConnectorIndexes(nodes) == { k \in 1..Len(nodes) : nodes[k].type = "connector" }

\* the connectors from top to bottom
TopToBottom(nodes) ==
    CHOOSE order \in [1..Cardinality(ConnectorIndexes(nodes)) -> ConnectorIndexes(nodes)] :
        /\ \A a, b \in DOMAIN order : a # b => order[a] # order[b]
        /\ \A a, b \in DOMAIN order : a < b => nodes[order[a]].y <= nodes[order[b]].y

ParticipantsPart(nodes) ==
    IF LifeLineLabels(nodes) # <<>>
    THEN <<"**Participants:**\n">> \o ParticipantLines(LifeLineLabels(nodes)) \o <<"">>
    ELSE <<>>

\* C23 (as stated; the code departs from it): every connector is described
\* with the life line nearest in x to its end among all life lines of the
\* board, labelled or not, and the connectors are listed by non-decreasing y.
C23_NearestOfAllLifeLines ==
    (call.fn = "_parse_board_nodes"
        /\ call.out # BoardParseError("maximum recursion depth exceeded")) =>
        LET nodes == call.arg
            order == TopToBottom(nodes)
        IN  \E lines \in [DOMAIN order -> UNION { StatedLines(nodes, nodes[order[a]]) :
                                                    a \in DOMAIN order }] :
               /\ \A a \in DOMAIN order : lines[a] \in StatedLines(nodes, nodes[order[a]])
               /\ call.out = Join("\n", <<"**Sequence Flow:**\n">> \o lines \o <<"">>
                                        \o ParticipantsPart(nodes))

----------------------------------------------------------------------------
(* C24: _parse_board_nodes on cyclic parent references *)

\* the id is resolved by no life line and has a parent to go to
Chases(nodes, id) ==
    /\ id # ""
    /\ id \notin LifeLineIds(nodes)
    /\ PrefixOwners(nodes, id) = {}
    /\ ParentOf(nodes, id) # ""

\* the parent chase from the id comes back to an id it has left
RECURSIVE CyclicChase(_, _, _)
CyclicChase(nodes, id, left) ==
    /\ Chases(nodes, id)
    /\ \/ id \in left
       \/ CyclicChase(nodes, ParentOf(nodes, id), left \cup {id})

ParseErrorPlaceholder == "[BOARD: Parse error - maximum recursion depth exceeded]"

\* C24: _parse_board_nodes returns a text for every node graph. The parent
\* chase of find_parent_life_line ends on every graph: with a life line,
\* with none, or, exactly when the parent references form a cycle that
\* reaches no life line, with the interpreter's RecursionError, which
\* _parse_board_nodes turns into the parse-error placeholder.
C24_CyclesEndInPlaceholder ==
    /\ call.fn = "find_parent_life_line" =>
          /\ call.out \in LifeLineIds(call.arg.nodes) \cup {None, RecursionError}
          /\ call.out = RecursionError <=> CyclicChase(call.arg.nodes, call.arg.node_id, {})
    /\ call.fn = "_parse_board_nodes" =>
          LET nodes == call.arg
              cyclic == \E k \in ConnectorIndexes(nodes) : CyclicChase(nodes, nodes[k].start, {})
          IN  IF cyclic
              THEN call.out = ParseErrorPlaceholder
              ELSE LET order == TopToBottom(nodes)
                       lines == [a \in DOMAIN order |-> SequenceLine(nodes, nodes[order[a]])]
                   IN  call.out = Join("\n", <<"**Sequence Flow:**\n">> \o lines \o <<"">>
                                            \o ParticipantsPart(nodes))

\* two shapes that are each other's parent, no life line lists either, and a
\* connector starts at one of them
C24_Witness ==
    /\ call.fn = "_parse_board_nodes"
    /\ \E k \in ConnectorIndexes(call.arg) : call.arg[k].start = "a1"
    /\ ParentOf(call.arg, "a1") = "a2"
    /\ ParentOf(call.arg, "a2") = "a1"
    /\ Containers(call.arg, "a1") = {}
    /\ call.out = ParseErrorPlaceholder

----------------------------------------------------------------------------
(* C26: ensure_authenticated and the get_bearer_token call after it *)

\* C26 (as stated; the code departs from it): once ensure_authenticated has
\* reported needsLogin = false, the get_bearer_token call of the same
\* invocation returns a token, whatever time passes between the two.
C26_TokenAfterAuthCheck ==
    [][TokenStep => (pc' = "blocks" /\ bearer_token' \notin {None, ""})]_vars

----------------------------------------------------------------------------
(* C25 *)

\* the login callback stored a token while the invocation was waiting for
\* its block request
C25_StoredWhileAwaiting ==
    /\ callback.pc = "done"
    /\ callback.outcome = "ok"
    /\ callback.during = "blocks"
    /\ user_access_token = "t-new"

\* C25: the failure handling of a docs invocation clears only credentials
\* that existed when the invocation started: a token that a login callback
\* stored while the invocation was awaiting its block request is still
\* stored when the invocation has failed
C25_CallbackTokenSurvivesFailure ==
    [][(C25_StoredWhileAwaiting /\ pc = "blocks" /\ pc' = "done")
         => user_access_token' = user_access_token]_vars

----------------------------------------------------------------------------
(* C27 *)

\* the three stored credentials
C27_Stored == <<user_access_token, user_refresh_token, user_access_token_expires_at>>

\* C27: exchange_code_for_token changes the stored credentials only on
\* success: when the call ends with a failure the access token, the refresh
\* token and the expiry are what they were before, and when it ends with
\* success the access and the refresh token are those of the response and an
\* expiry, if recorded, lies after the time of the call
C27_StoreChangesOnlyOnSuccess ==
    [][(callback.pc # "done" /\ callback'.pc = "done")
         => IF callback'.outcome = "ok"
            THEN /\ user_access_token' = "t-new"
                 /\ user_refresh_token' = "r-new"
                 /\ user_access_token_expires_at' \in { NoExpiry, now + ExpiryBuffer + 1 }
            ELSE C27_Stored' = C27_Stored]_vars

----------------------------------------------------------------------------
(* C28 *)

\* the states generate_auth_url has issued so far
C28_IssuedStates == { FreshState(k) : k \in 1..state_counter }

\* C28: the OAuth callback exchanges an authorization code for a token only
\* when the state that comes with it was issued by generate_auth_url before;
\* a callback with a missing or unknown state sends no request to the token
\* endpoint and stores no token
C28_ExchangeOnlyWithIssuedState ==
    [][/\ (callback.pc = "idle" /\ callback'.pc = "exchanging")
            => callback'.state \in C28_IssuedStates
       /\ (callback.pc = "exchanging" /\ callback'.pc = "done"
             /\ callback.state \notin C28_IssuedStates)
            => user_access_token' = user_access_token]_vars

----------------------------------------------------------------------------
(* C29 *)

\* C29: get_user_access_token returns a token only if one is stored and
\* either no expiry is recorded or the clock is strictly before the expiry
\* minus 60 seconds; once clear_tokens has run it returns None until an
\* exchange_code_for_token ends with success; clear_tokens leaves the stored
\* OAuth client configuration as it was
C29_UserTokenLifecycle ==
    [][/\ get_user_access_token' # None
            => /\ user_access_token' # None
               /\ \/ user_access_token_expires_at' = NoExpiry
                  \/ now' < user_access_token_expires_at' - ExpiryBuffer
       /\ (get_user_access_token = None /\ get_user_access_token' # None)
            => (callback.pc = "exchanging" /\ callback'.outcome = "ok")
       /\ (user_access_token' = None /\ pc' = pc /\ callback' = callback /\ now' = now)
            => /\ stored_oauth_config' = stored_oauth_config
               /\ get_user_access_token' = None]_vars

====
